---- MODULE Spec2Model ----
(***************************************************************************)
(* Model of agent-builder's execution engine:                              *)
(*   - utils/openApiSpec.ts : schema normalisation and strict validation   *)
(*   - implementations/agent.ts, class Agent : callTool (extraction,       *)
(*     validation, retry loop with regeneration)                           *)
(*   - implementations/agent.ts, class Orchestrator : execute(),           *)
(*     continue(), reset() over the OrchestratorState                      *)
(*                                                                         *)
(* Agent.callTool is sequential and touches no shared state, so one call   *)
(* is modelled by the set of its possible runs (callTool below): a run is  *)
(* the value it returns or the error it throws, together with the trace of *)
(* the gateway requests, tool executions and sleeps it made.  The gateway  *)
(* and the tools are the environment: their answers are chosen from small  *)
(* sets.  The Orchestrator is a state machine whose actions are the code   *)
(* between two awaits.                                                     *)
(***************************************************************************)
EXTENDS Integers, Sequences, FiniteSets, TLC

VARIABLES
    maxRetries,             \* Agent.maxRetries
    agentCall,              \* the ToolCall (and orchestratorCall flag) of a direct callTool
    agentRet,               \* what that callTool returned or threw, with its trace
    chain,                  \* the callTools in progress: its calls, results, outcome
    tools,                  \* Agent.tools: the registered tools, in insertion order
    regOp,                  \* the last constructor/addTool/removeTool call and its outcome
    validation,             \* a caller's validateAgainstSchema call and its result
    maxSteps,               \* Orchestrator.maxSteps
    maxIterations,          \* Orchestrator.maxIterations
    state,                  \* Orchestrator.state (OrchestratorState)
    opc,                    \* where the running execute()/continue() is suspended
    planRegenerationCount,  \* local of execute()
    iterations,             \* local of continue()
    cur,                    \* index in state.steps of the step executeStep works on
    ret,                    \* the OrchestratorResult of the last execute()/continue()
    obs,                    \* observations of the run: requests made, last tool run
    calls,                  \* overlapping execute() calls: where each is suspended, its locals
    stepIds                 \* the identity of each object of state.steps, in the same order

agentVars == <<maxRetries, agentCall, agentRet, chain, tools, regOp, validation>>
orchVars == <<maxSteps, maxIterations, state, opc, planRegenerationCount,
              iterations, cur, ret, obs>>
overlapVars == <<calls, stepIds>>
vars == <<maxRetries, agentCall, agentRet, chain, tools, regOp, validation, maxSteps, maxIterations, state, opc,
          planRegenerationCount, iterations, cur, ret, obs, calls, stepIds>>

(***************************************************************************)
(* Bounds of the model.                                                    *)
(***************************************************************************)
MaxRetriesCfg == 3      \* configured maxRetries ranges over -1..MaxRetriesCfg, or unset
MaxPlanLen == 2         \* steps in one plan returned by the gateway
MaxStepsCfg == 3        \* configured maxSteps ranges over 0..MaxStepsCfg
MaxContinues == 1       \* continue() calls that run after one execute()
MaxIterationsCfg == 1   \* configured maxIterations ranges over 0..MaxIterationsCfg
MaxChainLen == 2        \* tool calls handed to one callTools
MaxToolList == 2        \* tools in the list handed to the constructor
MergeSteps == 4         \* configured maxSteps of the runs that merge plans
OverlapSteps == 2       \* configured maxSteps of the overlapping calls
OverlapPlanLen == 1     \* steps in one plan returned to overlapping calls
OverlapFailures == 1    \* rounds of an overlapping call in which its tools may fail

(***************************************************************************)
(* Values.  A JavaScript value is encoded as a string; TypeOf gives its    *)
(* typeof.  "undef" is an absent key, "null" is null, "fn" is a function.  *)
(***************************************************************************)
Fields == {"a", "b", "c", "toString"}
Present == {"n5", "n3", "sx"}
Values == Present \cup {"null", "undef"}

TypeOf(v) == IF v \in {"n5", "n3"} THEN "number"
             ELSE IF v = "sx" THEN "string"
             ELSE IF v = "fn" THEN "function" ELSE "undefined"

Obj(a, b, c) ==
    [f \in Fields |-> IF f = "a" THEN a ELSE IF f = "b" THEN b
                      ELSE IF f = "c" THEN c ELSE "undef"]
EmptyObj == Obj("undef", "undef", "undef")
GoodArgs == Obj("n5", "n3", "undef")
OtherArgs == Obj("n3", "n5", "undef")
BadTypeArgs == Obj("sx", "n3", "undef")
MissingArgs == Obj("n5", "undef", "undef")
ExtraArgs == Obj("n5", "n3", "n5")

\* Object.keys(data): the own keys.
Keys(data) == {f \in Fields : data[f] # "undef"}

\* The names every object literal and every parsed JSON object inherits from
\* Object.prototype (one of them stands for all).
InheritedKeys == {"toString"}

\* key in obj, for an object with the own keys ownKeys: own or inherited.
In(key, ownKeys) == key \in ownKeys \/ key \in InheritedKeys

\* data[f]: the own value, or else the inherited function.
Get(data, f) ==
    IF data[f] = "undef" /\ f \in InheritedKeys THEN "fn" ELSE data[f]

(***************************************************************************)
(* utils/openApiSpec.ts                                                    *)
(***************************************************************************)
\* A ParametersSchema in the simplified format: field -> property ({type}).
AddSchema == [format |-> "simplified",
              properties |-> [f \in {"a", "b"} |-> [type |-> "number"]],
              required |-> {}]

\* The same parameters in OpenAPI format, with b optional.
OptSchema == [format |-> "openapi",
              properties |-> [f \in {"a", "b"} |-> [type |-> "number"]],
              required |-> {"a"}]

normalizeToOpenAPISchema(schema) ==
    IF schema.format = "openapi"
    THEN schema
    ELSE [format |-> "openapi",
          properties |-> schema.properties,
          required |-> DOMAIN schema.properties]

\* The error of validateProperty for one value, "" when it is valid.
validateProperty(value, property, fieldPath) ==
    IF value \in {"undef", "null"} THEN "Missing required field"
    ELSE IF property.type \in {"integer", "number"} /\ TypeOf(value) # "number"
         THEN "must be a number"
    ELSE IF property.type = "string" /\ TypeOf(value) # "string"
         THEN "must be a string"
    ELSE ""

validateAgainstOpenAPISchema(data, schema) ==
    LET props == DOMAIN schema.properties
        missing == {<<"Missing required field", f>> :
                        f \in {g \in schema.required :
                                 \/ ~In(g, Keys(data))
                                 \/ Get(data, g) \in {"undef", "null"}}}
        checked == {f \in props :
                        f \in schema.required \/ Get(data, f) \notin {"undef", "null"}}
        invalid == {<<validateProperty(Get(data, f), schema.properties[f], f), f>> :
                        f \in {g \in checked :
                                 validateProperty(Get(data, g), schema.properties[g], g) # ""}}
        extra == {<<"Unexpected field", f>> : f \in {g \in Keys(data) : ~In(g, props)}}
        errors == missing \cup invalid \cup extra
        validatedData == [f \in Fields |->
                            IF f \in checked THEN Get(data, f) ELSE "undef"]
    IN  [isValid |-> errors = {},
         data |-> IF errors = {} THEN validatedData ELSE EmptyObj,
         errors |-> errors]

validateAgainstSchema(data, schema) ==
    validateAgainstOpenAPISchema(data, normalizeToOpenAPISchema(schema))

(***************************************************************************)
(* implementations/agent.ts, class Agent                                   *)
(***************************************************************************)
DefaultMaxRetries == 3
MinMaxRetries == 1

\* An AgentConfig.maxRetries: unset, or a number.
RetryConfigs == {[given |-> FALSE, value |-> 0]} \cup
                {[given |-> TRUE, value |-> n] : n \in (0 - 1)..MaxRetriesCfg}

Max(x, y) == IF x >= y THEN x ELSE y

\* Variant of ctorMaxRetries without the floor of 1: the configured number as given.
ctorMaxRetries_unclamped(config) ==
    IF config.given THEN config.value ELSE DefaultMaxRetries

\* constructor: this.maxRetries = Math.max(1, config.maxRetries ?? 3)
ctorMaxRetries(config) ==
    Max(MinMaxRetries, IF config.given THEN config.value ELSE DefaultMaxRetries)

\* The registry this.tools: name -> Tool.
ToolDefs == [n \in {"add", "smart_add"} |->
                [name |-> n, agentic |-> (n = "smart_add"), parametersSchema |-> AddSchema]]
ToolNames == DOMAIN ToolDefs \cup {"unknown_tool"}

\* A ToolCall; context "" is an absent (or empty) context.
ToolCalls == [tool : ToolNames,
              arguments : {EmptyObj, GoodArgs, BadTypeArgs, MissingArgs, ExtraArgs},
              context : {"", "ctx"}]

\* What the gateway's getStructuredOutput may answer to an extraction request.
LLMData == {GoodArgs, OtherArgs, BadTypeArgs}
GatewayResponses == {[kind |-> k, data |-> EmptyObj] : k \in {"throw", "invalid"}} \cup
                    {[kind |-> "data", data |-> d] : d \in LLMData}

\* What tool.execute may do: return a value or throw an error with a message.
ToolResults == {"r1", "r2"}
ToolErrors == {"e1", "e2"}
NoError == "-"

\* One entry of a run's trace: a gateway request, a tool.execute or a sleep.
\* info: the error message a regeneration request carries, or what execute did.
\* src : for execute, the assignment its arguments come from; for an extraction
\*       or regeneration request, whether it gave valid arguments ("ok", "failed").
Ev(ev, att, info, src, args) ==
    [ev |-> ev, att |-> att, info |-> info, src |-> src, args |-> args]

Returned(result, trace) ==
    [outcome |-> "ok", result |-> result, toolName |-> "-", retryCount |-> 0,
     trace |-> trace]
Thrown(kind, toolName, retryCount, trace) ==
    [outcome |-> kind, result |-> "-", toolName |-> toolName,
     retryCount |-> retryCount, trace |-> trace]

hasArguments(toolCall) == Cardinality(Keys(toolCall.arguments)) > 0
hasContext(toolCall) == toolCall.context # ""

\* generateStructuredDataForTool, given the gateway's answer: the validated
\* data, or a failure (the gateway threw, !isValid, or strict validation failed).
generateStructuredDataForTool(tool, response) ==
    IF response.kind # "data"
    THEN [ok |-> FALSE, data |-> EmptyObj]
    ELSE LET validationResult == validateAgainstSchema(response.data, tool.parametersSchema)
         IN  [ok |-> validationResult.isValid, data |-> validationResult.data]

\* regenerateStructuredDataWithError, given the gateway's answer, followed by
\* callTool's own validation of the regenerated data (lines 519-535).
regenerateStructuredDataWithError(tool, response) ==
    LET regenerated == generateStructuredDataForTool(tool, response)
        again == validateAgainstSchema(regenerated.data, tool.parametersSchema)
    IN  IF regenerated.ok /\ again.isValid
        THEN [ok |-> TRUE, data |-> again.data]
        ELSE [ok |-> FALSE, data |-> EmptyObj]

\* Variant of extractsArguments that follows the comment of lines 436-440 only:
\* the orchestratorCall flag forces nothing.
extractsArguments_contextOnly(tool, toolCall, orchestratorCall) ==
    tool.agentic /\ ~hasArguments(toolCall) /\ hasContext(toolCall)

\* Variant of extractsArguments that prefers the context of an agentic tool to
\* the arguments given with it.
extractsArguments_contextFirst(tool, toolCall, orchestratorCall) ==
    (tool.agentic /\ hasContext(toolCall)) \/ orchestratorCall

\* line 441: the arguments are generated by the gateway
extractsArguments(tool, toolCall, orchestratorCall) ==
    (tool.agentic /\ ~hasArguments(toolCall) /\ hasContext(toolCall)) \/ orchestratorCall

\* line 499
shouldRegenerateOnRetry(tool, toolCall) ==
    tool.agentic /\ ~hasArguments(toolCall) /\ hasContext(toolCall)

\* Variant of sleepsAfter that sleeps after every failed attempt.
sleepsAfter_always(attempt, m) == TRUE

\* line 574: sleep between attempts, not after the last one
sleepsAfter(attempt, m) == attempt < m

\* Variant of argsAfterRegeneration that takes whatever the regeneration gave.
argsAfterRegeneration_always(g, finalArgs) == [data |-> g.data, src |-> "regeneration"]

\* lines 510-550: the regenerated arguments, or the previous ones when the
\* regeneration failed (the catch of line 540 only logs)
argsAfterRegeneration(g, finalArgs) ==
    IF g.ok THEN [data |-> g.data, src |-> "regeneration"] ELSE finalArgs

\* lines 502-585: the retry loop from `attempt` on; finalArgs is [data, src].
RECURSIVE retryLoop(_, _, _, _, _, _, _)
retryLoop(tool, toolCall, m, attempt, finalArgs, lastError, trace) ==
    IF attempt > m
    THEN {Thrown("ToolExecutionFailed", tool.name, m, trace)}
    ELSE
      LET regenerate == attempt > 1 /\ shouldRegenerateOnRetry(tool, toolCall)
                            /\ lastError # NoError
          request(g) == Ev("regenerate", attempt, lastError,
                           IF g.ok THEN "ok" ELSE "failed", EmptyObj)
          starts ==
            IF regenerate
            THEN {LET g == regenerateStructuredDataWithError(tool, response)
                  IN  [args |-> argsAfterRegeneration(g, finalArgs),
                       trace |-> Append(trace, request(g))] : response \in GatewayResponses}
            ELSE {[args |-> finalArgs, trace |-> trace]}
          executed(s, what) ==
            Append(s.trace, Ev("execute", attempt, what, s.args.src, s.args.data))
          failed(s, e) ==
            IF sleepsAfter(attempt, m)
            THEN Append(executed(s, e), Ev("sleep", attempt, "-", "-", EmptyObj))
            ELSE executed(s, e)
      IN  UNION {
            {Returned(r, executed(s, "ok")) : r \in ToolResults}
              \cup UNION {retryLoop(tool, toolCall, m, attempt + 1, s.args, e, failed(s, e))
                            : e \in ToolErrors}
            : s \in starts}

\* Variant of validateAndRun that enters the retry loop whatever validation said.
validateAndRun_unchecked(tool, toolCall, m, finalArgs, trace) ==
    retryLoop(tool, toolCall, m, 1, finalArgs, NoError, trace)

\* lines 480-496 and the loop: validate the effective arguments, then try.
validateAndRun(tool, toolCall, m, finalArgs, trace) ==
    LET validationResult == validateAgainstSchema(finalArgs.data, tool.parametersSchema)
    IN  IF ~validationResult.isValid
        THEN {Thrown("ValidationFailed", tool.name, 0, trace)}
        ELSE retryLoop(tool, toolCall, m, 1,
                       [data |-> validationResult.data, src |-> finalArgs.src],
                       NoError, trace)

\* Variant of extractionFailed that hands the failure to the retry loop, as the
\* error of an attempt that is over.
extractionFailed_retried(tool, toolCall, m, trace) ==
    retryLoop(tool, toolCall, m, 2, [data |-> toolCall.arguments, src |-> "arguments"],
              "extraction failed", trace)

\* lines 456-464: the catch around the extraction rethrows at once
extractionFailed(tool, toolCall, m, trace) ==
    {Thrown("ExtractionFailed", tool.name, 0, trace)}

\* Variant of toolNotFound that looks at the arguments and the context first.
toolNotFound_inputFirst(toolCall) ==
    IF ~hasArguments(toolCall) /\ ~hasContext(toolCall)
    THEN {Thrown("MissingInput", toolCall.tool, 0, <<>>)}
    ELSE {Thrown("ToolNotFound", toolCall.tool, 0, <<>>)}

\* line 419 with getTool (lines 123-129): the name is not registered, getTool
\* throws before callTool has looked at the arguments or the context.
toolNotFound(toolCall) == {Thrown("ToolNotFound", toolCall.tool, 0, <<>>)}

\* callTool(toolCall, orchestratorCall): the set of its possible runs.
callTool(toolCall, orchestratorCall, m) ==
    IF toolCall.tool \notin DOMAIN ToolDefs
    THEN toolNotFound(toolCall)
    ELSE
      LET tool == ToolDefs[toolCall.tool]
          explicit == [data |-> toolCall.arguments, src |-> "arguments"]
      IN  IF ~hasArguments(toolCall) /\ ~hasContext(toolCall)
          THEN {Thrown("MissingInput", tool.name, 0, <<>>)}
          ELSE IF extractsArguments(tool, toolCall, orchestratorCall)
          THEN LET request(g) == Ev("extract", 0,
                                    IF hasContext(toolCall) THEN toolCall.context
                                    ELSE "Generate Arguments for the given tool.",
                                    IF g.ok THEN "ok" ELSE "failed", EmptyObj)
               IN  UNION {
                     LET g == generateStructuredDataForTool(tool, response)
                     IN  IF ~g.ok
                         THEN extractionFailed(tool, toolCall, m, <<request(g)>>)
                         ELSE validateAndRun(tool, toolCall, m,
                                             [data |-> g.data, src |-> "extraction"],
                                             <<request(g)>>)
                     : response \in GatewayResponses}
          ELSE IF tool.agentic /\ hasArguments(toolCall)
          THEN validateAndRun(tool, toolCall, m, explicit, <<>>)
          ELSE IF tool.agentic /\ ~hasContext(toolCall)
          THEN {Thrown("MissingInput", tool.name, 0, <<>>)}
          ELSE validateAndRun(tool, toolCall, m, explicit, <<>>)

NoCall == [tool |-> "-", arguments |-> EmptyObj, context |-> "", orchestratorCall |-> FALSE]
NoRun == [outcome |-> "none", result |-> "-", toolName |-> "-", retryCount |-> 0,
          trace |-> <<>>]

\* A caller invokes agent.callTool(toolCall, orchestratorCall) and gets its outcome.
CallToolDirect ==
    /\ agentRet = NoRun
    /\ \E toolCall \in ToolCalls, orchestratorCall \in BOOLEAN :
         \E run \in callTool(toolCall, orchestratorCall, maxRetries) :
            /\ agentCall' = [tool |-> toolCall.tool, arguments |-> toolCall.arguments,
                             context |-> toolCall.context,
                             orchestratorCall |-> orchestratorCall]
            /\ agentRet' = run
    /\ UNCHANGED <<maxRetries, chain, tools, regOp, validation>>
    /\ UNCHANGED orchVars
    /\ UNCHANGED overlapVars

\* The caller is done with the outcome; the agent is ready for the next call.
CallToolDone ==
    /\ agentRet # NoRun
    /\ agentCall' = NoCall
    /\ agentRet' = NoRun
    /\ UNCHANGED <<maxRetries, chain, tools, regOp, validation>>
    /\ UNCHANGED orchVars
    /\ UNCHANGED overlapVars

(***************************************************************************)
(* implementations/agent.ts, class Orchestrator                            *)
(***************************************************************************)
DefaultMaxSteps == 10
MinMaxSteps == 1
DefaultMaxIterations == 5
MinMaxIterations == 1
maxPlanRegenerations == 3

\* constructor: this.maxSteps = Math.max(1, config.maxSteps ?? 10)
ctorMaxSteps(config) ==
    Max(MinMaxSteps, IF config.given THEN config.value ELSE DefaultMaxSteps)

\* constructor: this.maxIterations = Math.max(1, config.maxIterations ?? 5)
ctorMaxIterations(config) ==
    Max(MinMaxIterations, IF config.given THEN config.value ELSE DefaultMaxIterations)

Queries == {"q1"}

createInitialState(userQuery) ==
    [userQuery |-> userQuery,
     steps |-> <<>>,
     currentStepIndex |-> 0,
     status |-> "idle",
     conversationHistory |-> 0,     \* 0 for the empty list, 1 for a list with entries
     context |-> {},                \* the pairs <<n, result>> of step_<n>_result
     plan |-> "",
     error |-> ""]

\* One entry of PlanningResponse.steps.
PlanCalls == {[tool |-> "add", arguments |-> GoodArgs],
              [tool |-> "smart_add", arguments |-> EmptyObj]}
DepChoices == {{}, {1}, {2}}
PlanSteps == [stepNumber : 1..MaxPlanLen, call : PlanCalls, dependsOn : DepChoices]

SeqsUpTo(S, n) == UNION {[1..k -> S] : k \in 0..n}

\* The step numbers the gateway gives to a plan of k steps: in order, in reverse
\* order, or the same number for every step.
Numberings(k) == {[i \in 1..k |-> i], [i \in 1..k |-> k + 1 - i], [i \in 1..k |-> 1]}

\* What the gateway may answer to a planning request.
PlanResponses ==
    {[kind |-> k, steps |-> <<>>, isComplete |-> FALSE] : k \in {"throw", "invalid"}} \cup
    {[kind |-> "plan", steps |-> p, isComplete |-> c] :
        p \in {q \in SeqsUpTo(PlanSteps, MaxPlanLen) :
                  [i \in DOMAIN q |-> q[i].stepNumber] \in Numberings(Len(q))},
        c \in BOOLEAN}

\* The gateway's answer to a regeneration request: the step numbers it gives are
\* overwritten by the renumbering and its isComplete is not read, so only one
\* numbering and one isComplete are drawn.
ReplanResponses ==
    {r \in PlanResponses : /\ \A i \in DOMAIN r.steps : r.steps[i].stepNumber = i
                           /\ ~r.isComplete}

convertToExecutionSteps(planResponse) ==
    [i \in DOMAIN planResponse.steps |->
        [stepNumber |-> planResponse.steps[i].stepNumber,
         tool |-> planResponse.steps[i].call.tool,
         arguments |-> planResponse.steps[i].call.arguments,
         completed |-> FALSE,
         dependsOn |-> planResponse.steps[i].dependsOn,
         result |-> "-",
         error |-> ""]]

\* steps.find((s) => s.stepNumber === n): the index of the first such step, or 0.
findStep(steps, n) ==
    LET hits == {i \in DOMAIN steps : steps[i].stepNumber = n}
    IN  IF hits = {} THEN 0 ELSE CHOOSE i \in hits : \A j \in hits : i <= j

\* Variant of unsatisfiedDeps that finds every dependency satisfied.
unsatisfiedDeps_none(steps, step) == {}

\* lines 1374-1377: the dependencies that are absent or not completed
unsatisfiedDeps(steps, step) ==
    {depNum \in step.dependsOn :
        findStep(steps, depNum) = 0 \/ ~steps[findStep(steps, depNum)].completed}

\* lines 1635-1645
executableSteps(steps) ==
    {i \in DOMAIN steps :
        /\ ~steps[i].completed
        /\ \A depNum \in steps[i].dependsOn :
              findStep(steps, depNum) # 0 /\ steps[findStep(steps, depNum)].completed}

\* Variant of findNextExecutableStep that returns null when no pending step is
\* executable, instead of the first pending step.
findNextExecutableStep_onlyExecutable(steps) ==
    LET executable == executableSteps(steps)
        lowest == {i \in executable :
                     \A j \in executable : steps[i].stepNumber <= steps[j].stepNumber}
    IN  IF executable = {} THEN 0
        ELSE CHOOSE i \in lowest : \A j \in lowest : i <= j

\* Variant of findNextExecutableStep that returns the executable step that comes
\* first in steps, whatever its stepNumber.
findNextExecutableStep_firstExecutable(steps) ==
    LET pendingSteps == {i \in DOMAIN steps : ~steps[i].completed}
        executable == executableSteps(steps)
    IN  IF pendingSteps = {} THEN 0
        ELSE IF executable = {}
             THEN CHOOSE i \in pendingSteps : \A j \in pendingSteps : i <= j
        ELSE CHOOSE i \in executable : \A j \in executable : i <= j

\* The index of the step findNextExecutableStep returns, 0 for null.
findNextExecutableStep(steps) ==
    LET pendingSteps == {i \in DOMAIN steps : ~steps[i].completed}
        executable == executableSteps(steps)
        lowest == {i \in executable :
                     \A j \in executable : steps[i].stepNumber <= steps[j].stepNumber}
    IN  IF pendingSteps = {} THEN 0
        ELSE IF executable = {}
             THEN CHOOSE i \in pendingSteps : \A j \in pendingSteps : i <= j
        ELSE CHOOSE i \in lowest : \A j \in lowest : i <= j

\* Variant of dataPoints that takes the data of every completed step of steps,
\* listed in step.dependsOn or not.
dataPoints_allSteps(steps, step) ==
    {<<steps[k].stepNumber, steps[k].result>> :
        k \in {i \in DOMAIN steps : steps[i].completed /\ steps[i].result # "-"}}

\* lines 1318-1349: the data points of the context, one for each number of
\* step.dependsOn whose step (the first with that number) is completed and has
\* a result. The results of the model are strings, which dataStr takes as they
\* are (line 1329). "-" is undefined. The order of the points and the
\* descriptions of the label are left out.
dataPoints(steps, step) ==
    {<<steps[k].stepNumber, steps[k].result>> :
        k \in {findStep(steps, depNum) : depNum \in
                  {n \in step.dependsOn :
                      /\ findStep(steps, n) # 0
                      /\ steps[findStep(steps, n)].completed
                      /\ steps[findStep(steps, n)].result # "-"}}}

\* lines 1309-1359: the context is made of the user query, the step's own
\* description (not modelled) and the data points.
distillContextForAgenticTool(st, step) ==
    [task |-> st.userQuery, data |-> dataPoints(st.steps, step)]

\* A ToolCall without the context key.
NoContext == [present |-> FALSE, task |-> "", data |-> {}]

\* lines 1393-1418: the ToolCall executeStep hands to agent.callTool
toolCallWithContext(st, step) ==
    LET isAgentic == step.tool \in DOMAIN ToolDefs /\ ToolDefs[step.tool].agentic
        distilledContext == distillContextForAgenticTool(st, step)
    IN  [tool |-> step.tool,
         arguments |-> step.arguments,
         context |-> IF isAgentic /\ Cardinality(Keys(step.arguments)) = 0
                     THEN [present |-> TRUE, task |-> distilledContext.task,
                           data |-> distilledContext.data]
                     ELSE NoContext]

\* callTool reads of the context only whether it is a non-empty string (line
\* 436), and hands it to the gateway, whose answers do not depend on it here:
\* the context of the agent's ToolCall is "ctx" for any context that is present.
asAgentCall(call) ==
    [tool |-> call.tool, arguments |-> call.arguments,
     context |-> IF call.context.present THEN "ctx" ELSE ""]

\* line 1420: executeStep always passes orchestratorCall = true
stepOrchestratorCall == TRUE

\* What the orchestrator sees of a run of callTool (outcome, result), and what
\* the run did: whether the tool was executed, whether the run began with an
\* extraction request, whether execute was handed the call's own arguments.
Summary(run) ==
    LET t == run.trace
        execs == {i \in DOMAIN t : t[i].ev = "execute"}
    IN  [outcome |-> IF run.outcome = "ok" THEN "ok" ELSE "threw",
         result |-> run.result,
         executed |-> execs # {},
         extractFirst |-> (t # <<>> /\ t[1].ev = "extract"),
         planned |-> \E i \in execs : t[i].src = "arguments"]

\* The runs of the callTool made for a step, for each ToolCall a step can make.
StepToolCalls == [tool : DOMAIN ToolDefs, arguments : {EmptyObj, GoodArgs},
                  context : {"", "ctx"}]
RECURSIVE tabulateStepRuns(_)
tabulateStepRuns(keys) ==
    LET key == CHOOSE k \in keys : TRUE
        runs == {Summary(run) : run \in callTool(key[1], stepOrchestratorCall, key[2])}
    IN  IF keys = {key} THEN key :> runs
        ELSE (key :> runs) @@ tabulateStepRuns(keys \ {key})
stepRunsOf == tabulateStepRuns(
    StepToolCalls \X (MinMaxRetries..Max(DefaultMaxRetries, MaxRetriesCfg)))
stepRuns(st, step, m) == stepRunsOf[<<asAgentCall(toolCallWithContext(st, step)), m>>]

\* What the last callTool of the run did (the Summary without outcome and result).
Did(run) == [made |-> TRUE, executed |-> run.executed,
             extractFirst |-> run.extractFirst, planned |-> run.planned]
NoRunYet == [made |-> FALSE, executed |-> FALSE, extractFirst |-> FALSE, planned |-> FALSE]

\* Observations of the current call: the plans and regenerated plans requested
\* from the gateway, the step failures, what the last callTool did; and the
\* number of continue() calls that ran since the last execute(); and whether the
\* final decision of execute() said shouldContinue.
NoObs == [plans |-> 0, replans |-> 0, failures |-> 0, run |-> NoRunYet, continues |-> 0,
          more |-> FALSE]
NoResult == [call |-> "none", success |-> FALSE, finalResponse |-> "", error |-> ""]
Result(call, success, finalResponse, error) ==
    [call |-> call, success |-> success, finalResponse |-> finalResponse, error |-> error]

\* The values of the orchestrator's variables when control next awaits or returns.
Cfg(st, pc, count, c, r, o) ==
    [state |-> st, opc |-> pc, planRegenerationCount |-> count, cur |-> c, ret |-> r,
     obs |-> o]

\* planRegenerationCount is a local of execute(): it is gone when the call returns.
Become(k) ==
    /\ state' = k.state
    /\ opc' = k.opc
    /\ planRegenerationCount' = IF k.opc = "idle" THEN 0 ELSE k.planRegenerationCount
    /\ cur' = k.cur
    /\ ret' = k.ret
    /\ obs' = k.obs

\* Variant of executeFailed whose catch leaves the status idle.
executeFailed_idle(st, count, o, message) ==
    Cfg([st EXCEPT !.status = "idle", !.error = message], "idle", count, 0,
        Result("execute", FALSE, "Execution failed", message), o)

\* Variant of executeFailed whose result reports success.
executeFailed_success(st, count, o, message) ==
    Cfg([st EXCEPT !.status = "error", !.error = message], "idle", count, 0,
        Result("execute", TRUE, "Execution failed", message), o)

\* lines 1603-1617: the outer catch of execute()
executeFailed(st, count, o, message) ==
    Cfg([st EXCEPT !.status = "error", !.error = message], "idle", count, 0,
        Result("execute", FALSE, "Execution failed", message), o)

\* Variant of ceilingReached that is late by one regeneration.
ceilingReached_late(count) == count > maxPlanRegenerations

\* line 1532: the regeneration ceiling is used up
ceilingReached(count) == count >= maxPlanRegenerations

\* Variant of stepFailed that, at the ceiling, ends the run as completed.
stepFailed_completes(st, count, o, message) ==
    LET o1 == [o EXCEPT !.failures = @ + 1]
    IN  IF ceilingReached(count)
        THEN Cfg([st EXCEPT !.status = "completed"], "idle", count, 0,
                 Result("execute", TRUE, "reached maximum plan regenerations", ""), o1)
        ELSE Cfg([st EXCEPT !.status = "planning"], "replan", count + 1, 0, NoResult,
                 [o1 EXCEPT !.plans = @ + 1, !.replans = @ + 1])

\* Variant of stepFailed that starts the run over: no ceiling on the plans requested.
stepFailed_startsOver(st, count, o, message) ==
    Cfg([createInitialState(st.userQuery) EXCEPT !.status = "planning"], "plan", 0, 0,
        NoResult, [NoObs EXCEPT !.plans = 1])

\* lines 1525-1559: a step failed (its dependency check or its tool call)
stepFailed(st, count, o, message) ==
    LET o1 == [o EXCEPT !.failures = @ + 1]
    IN  IF ceilingReached(count)
        THEN Cfg([st EXCEPT !.status = "error", !.error = message], "idle", count, 0,
                 Result("execute", FALSE, "Execution failed after plan regenerations",
                        message), o1)
        ELSE \* generatePlan(userQuery, systemPrompt, planResponse, completedSteps)
             Cfg([st EXCEPT !.status = "planning"], "replan", count + 1, 0, NoResult,
                 [o1 EXCEPT !.plans = @ + 1, !.replans = @ + 1])

\* Variant of stepLimitReached that never stops the run.
stepLimitReached_never(st, limit) == FALSE

\* line 1510
stepLimitReached(st, limit) == Len(st.steps) >= limit

\* lines 1488-1524: the while loop of execute() up to its next await or return
executeLoop(st, count, o, limit) ==
    IF ~(count <= maxPlanRegenerations)
    THEN Cfg([st EXCEPT !.status = "completed"], "idle", count, 0,
             Result("execute", TRUE, "reached maximum plan regenerations", ""), o)
    ELSE
      LET nextStep == findNextExecutableStep(st.steps)
      IN  IF nextStep = 0
          THEN \* all steps completed: await determineNextStep()
               Cfg([st EXCEPT !.status = "completed"], "final", count, 0, NoResult,
                   o)
          ELSE IF stepLimitReached(st, limit)
          THEN Cfg([st EXCEPT !.status = "completed"], "idle", count, 0,
                   Result("execute", TRUE, "reached maximum steps limit", ""), o)
          ELSE
            LET st1 == [st EXCEPT !.currentStepIndex = st.steps[nextStep].stepNumber - 1]
            IN  IF unsatisfiedDeps(st1.steps, st1.steps[nextStep]) # {}
                THEN stepFailed(st1, count, o, "dependency")
                ELSE \* await this.agent.callTool(toolCallWithContext, true)
                     Cfg([st1 EXCEPT !.status = "executing"], "tool", count, nextStep,
                         NoResult, o)

\* lines 1422-1427: executeStep after callTool returned
stepCompleted(st, i, result) ==
    [st EXCEPT !.steps[i].completed = TRUE,
               !.steps[i].result = result,
               !.context = {p \in @ : p[1] # st.steps[i].stepNumber}
                              \cup {<<st.steps[i].stepNumber, result>>},
               !.conversationHistory = 1]

\* lines 1431-1437: executeStep after callTool threw
stepErrored(st, i, message) ==
    [st EXCEPT !.steps[i].error = message,
               !.conversationHistory = 1]

completedOf(steps) == LET Done(x) == x.completed IN SelectSeq(steps, Done)

\* Variant of mergePlan that replaces the whole plan by the regenerated one.
mergePlan_replaceAll(steps, planResponse) == convertToExecutionSteps(planResponse)

\* lines 1561-1584: merge the regenerated plan with the completed steps
mergePlan(steps, planResponse) ==
    LET completedSteps == completedOf(steps)
        numbers == {steps[i].stepNumber : i \in DOMAIN steps} \cup {0}
        maxStepNumber == CHOOSE n \in numbers : \A k \in numbers : k <= n
        converted == convertToExecutionSteps(planResponse)
        newSteps == [i \in DOMAIN converted |->
                        [converted[i] EXCEPT !.stepNumber = maxStepNumber + i]]
        Fresh(x) == \A j \in DOMAIN completedSteps :
                        completedSteps[j].stepNumber # x.stepNumber
    IN  completedSteps \o SelectSeq(newSteps, Fresh)

\* generatePlan after the gateway answered (lines 1151-1171)
planAccepted(st) ==
    [st EXCEPT !.plan = "plan", !.conversationHistory = 1]

\* Variant of newState that keeps the history, the shared context and the
\* error of the state it replaces.
newState_keeping(st, userQuery) ==
    [createInitialState(userQuery) EXCEPT !.conversationHistory = st.conversationHistory,
                                          !.context = st.context,
                                          !.error = st.error]

\* lines 1464 and 1685: this.state = this.createInitialState(...) puts a new
\* state in the place of st.
newState(st, userQuery) == createInitialState(userQuery)

\* execute(userQuery): reset the state and request the initial plan.
Execute ==
    /\ opc = "idle"
    /\ \E userQuery \in Queries :
         Become(Cfg([newState(state, userQuery) EXCEPT !.status = "planning"],
                    "plan", 0, 0, NoResult, [NoObs EXCEPT !.plans = 1]))
    /\ iterations' = 0
    /\ UNCHANGED <<maxSteps, maxIterations>>
    /\ UNCHANGED agentVars
    /\ UNCHANGED overlapVars

\* The gateway answers the initial planning request.
PlanReturn ==
    /\ opc = "plan"
    /\ \E response \in PlanResponses :
         IF response.kind # "plan"
         THEN Become(executeFailed(state, planRegenerationCount, obs, "planning"))
         ELSE LET st1 == [planAccepted(state) EXCEPT
                              !.steps = convertToExecutionSteps(response)]
              IN  IF response.isComplete /\ Len(st1.steps) = 0
                  THEN Become(Cfg([st1 EXCEPT !.status = "completed"], "idle",
                                  planRegenerationCount, 0,
                                  Result("execute", TRUE, "without tool calls", ""), obs))
                  ELSE Become(executeLoop(st1, planRegenerationCount, obs, maxSteps))
    /\ UNCHANGED <<maxSteps, maxIterations, iterations>>
    /\ UNCHANGED agentVars
    /\ UNCHANGED overlapVars

\* agent.callTool returns to (or throws into) the executeStep of execute().
StepReturn ==
    /\ opc = "tool"
    /\ \E run \in stepRuns(state, state.steps[cur], maxRetries) :
         LET o1 == [obs EXCEPT !.run = Did(run)]
         IN  IF run.outcome = "ok"
             THEN Become(executeLoop(stepCompleted(state, cur, run.result),
                                     planRegenerationCount, o1, maxSteps))
             ELSE Become(stepFailed(stepErrored(state, cur, "tool"),
                                    planRegenerationCount, o1, "tool"))
    /\ UNCHANGED <<maxSteps, maxIterations, iterations>>
    /\ UNCHANGED agentVars
    /\ UNCHANGED overlapVars

\* The gateway answers a plan regeneration request.
ReplanReturn ==
    /\ opc = "replan"
    /\ \E response \in ReplanResponses :
         IF response.kind # "plan"
         THEN Become(executeFailed(state, planRegenerationCount, obs, "planning"))
         ELSE Become(executeLoop([planAccepted(state) EXCEPT
                                      !.steps = mergePlan(state.steps, response)],
                                 planRegenerationCount, obs, maxSteps))
    /\ UNCHANGED <<maxSteps, maxIterations, iterations>>
    /\ UNCHANGED agentVars
    /\ UNCHANGED overlapVars

\* What the gateway may answer to determineNextStep().
Decisions ==
    {[kind |-> k, shouldContinue |-> FALSE, nextStep |-> "", call |-> CHOOSE c \in PlanCalls : TRUE]
        : k \in {"throw", "invalid"}} \cup
    {[kind |-> "decision", shouldContinue |-> FALSE, nextStep |-> "",
      call |-> CHOOSE c \in PlanCalls : TRUE]} \cup
    {[kind |-> "decision", shouldContinue |-> TRUE, nextStep |-> "",
      call |-> CHOOSE c \in PlanCalls : TRUE]} \cup
    {[kind |-> "decision", shouldContinue |-> TRUE, nextStep |-> "new", call |-> c]
        : c \in PlanCalls}

\* The gateway answers the final determineNextStep() of execute() (lines 1498-1506).
FinalReturn ==
    /\ opc = "final"
    /\ \E decision \in Decisions :
         IF decision.kind # "decision"
         THEN Become(executeFailed(state, planRegenerationCount, obs, "decision"))
         ELSE Become(Cfg(state, "idle", planRegenerationCount, 0,
                         Result("execute", TRUE, "all steps completed", ""),
                         [obs EXCEPT !.more = decision.shouldContinue]))
    /\ UNCHANGED <<maxSteps, maxIterations, iterations>>
    /\ UNCHANGED agentVars
    /\ UNCHANGED overlapVars

\* reset()
Reset ==
    /\ opc = "idle"
    /\ state' = newState(state, "")
    /\ UNCHANGED <<maxSteps, maxIterations, opc, planRegenerationCount, iterations,
                   cur, ret, obs>>
    /\ UNCHANGED agentVars
    /\ UNCHANGED overlapVars

\* lines 1858-1872: the catch of continue()
continueFailed(st, o, message) ==
    Cfg([st EXCEPT !.status = "error", !.error = message], "idle",
        planRegenerationCount, 0,
        Result("continue", FALSE, "Execution failed", message), o)

\* continue() returns a completed run
continueCompleted(st, o, finalResponse) ==
    Cfg([st EXCEPT !.status = "completed"], "idle", planRegenerationCount, 0,
        Result("continue", TRUE, finalResponse, ""), o)

\* lines 1727-1760: the head of the while loop of continue(), up to its await.
\* The record carries the incremented iterations as well.
continueLoop(st, iters, o) ==
    IF ~(iters < maxIterations)
    THEN [k |-> continueCompleted(st, o, "reached maximum iterations"), iterations |-> iters]
    ELSE IF Len(st.steps) >= maxSteps
    THEN [k |-> continueCompleted(st, o, "reached maximum iterations"),
          iterations |-> iters + 1]
    ELSE IF Len(st.steps) > 0 /\ \A i \in DOMAIN st.steps : st.steps[i].completed
    THEN [k |-> Cfg(st, "c_all", planRegenerationCount, 0, NoResult,
                    o),
          iterations |-> iters + 1]
    ELSE [k |-> Cfg(st, "c_next", planRegenerationCount, 0, NoResult,
                    o),
          iterations |-> iters + 1]

\* lines 1780-1788: the step continue() builds from decision.nextStep
newStep(st, decision) ==
    [stepNumber |-> Len(st.steps) + 1,
     tool |-> decision.call.tool,
     arguments |-> decision.call.arguments,
     completed |-> FALSE,
     dependsOn |-> {},
     result |-> "-",
     error |-> ""]

\* Variant of firstPending that takes the first step, completed or not.
firstPending_anyStep(steps) == IF Len(steps) = 0 THEN 0 ELSE 1

\* line 1793: steps.find((s) => !s.completed), 0 for undefined
firstPending(steps) ==
    LET pending == {i \in DOMAIN steps : ~steps[i].completed}
    IN  IF pending = {} THEN 0 ELSE CHOOSE i \in pending : \A j \in pending : i <= j

\* lines 1821-1823 with the start of executeStep: check the dependencies, then
\* await agent.callTool
continueExecuteStep(st, o, i) ==
    LET st1 == [st EXCEPT !.currentStepIndex = st.steps[i].stepNumber - 1]
    IN  IF unsatisfiedDeps(st1.steps, st1.steps[i]) # {}
        THEN continueFailed(st1, [o EXCEPT !.failures = @ + 1], "dependency")
        ELSE Cfg([st1 EXCEPT !.status = "executing"], "c_tool", planRegenerationCount,
                 i, NoResult, o)

\* iterations is a local of continue(): it is gone when the call returns.
BecomeAt(k, iters) ==
    /\ Become(k)
    /\ iterations' = IF k.opc = "idle" THEN 0 ELSE iters

BecomeC(k) == BecomeAt(k, iterations)

\* Variant of continueEntry that enters the loop whatever the status.
continueEntry_run(status) == "run"

\* lines 1707-1720: what continue() does before its loop: return at once
\* ("noop"), throw, or run the loop.
continueEntry(status) ==
    IF status = "completed" THEN "noop"
    ELSE IF status = "idle" THEN "throw"
    ELSE "run"

\* continue()
Continue ==
    /\ opc = "idle"
    /\ IF continueEntry(state.status) = "noop"
       THEN /\ ret' = Result("continue", TRUE, "already completed", "")
            /\ UNCHANGED <<state, opc, planRegenerationCount, cur, obs, iterations>>
       ELSE IF continueEntry(state.status) = "throw"
       THEN /\ ret' = Result("continue", FALSE, "throws: no execution in progress", "")
            /\ UNCHANGED <<state, opc, planRegenerationCount, cur, obs, iterations>>
       ELSE /\ obs.continues < MaxContinues
            /\ LET n == continueLoop(state, 0, [NoObs EXCEPT !.continues = obs.continues + 1])
               IN  BecomeAt(n.k, n.iterations)
    /\ UNCHANGED <<maxSteps, maxIterations>>
    /\ UNCHANGED agentVars
    /\ UNCHANGED overlapVars

\* lines 1743-1757: the gateway answers the question asked when all steps are completed
ContinueAllReturn ==
    /\ opc = "c_all"
    /\ \E decision \in Decisions :
         IF decision.kind # "decision"
         THEN BecomeC(continueFailed(state, obs, "decision"))
         ELSE IF ~decision.shouldContinue
         THEN BecomeC(continueCompleted(state, obs, "decision"))
         ELSE BecomeC(Cfg(state, "c_next", planRegenerationCount, 0, NoResult,
                         obs))
    /\ UNCHANGED <<maxSteps, maxIterations>>
    /\ UNCHANGED agentVars
    /\ UNCHANGED overlapVars

\* lines 1760-1823: the gateway answers; pick or create the step and start it
ContinueNextReturn ==
    /\ opc = "c_next"
    /\ \E decision \in Decisions :
         IF decision.kind # "decision"
         THEN BecomeC(continueFailed(state, obs, "decision"))
         ELSE IF ~decision.shouldContinue
         THEN BecomeC(continueCompleted(state, obs, "decision"))
         ELSE IF decision.nextStep # ""
         THEN LET st1 == [state EXCEPT !.steps = Append(@, newStep(state, decision))]
              IN  BecomeC(continueExecuteStep(st1, obs, Len(st1.steps)))
         ELSE IF firstPending(state.steps) # 0
         THEN BecomeC(continueExecuteStep(state, obs, firstPending(state.steps)))
         ELSE BecomeC(Cfg(state, "c_last", planRegenerationCount, 0, NoResult,
                         obs))
    /\ UNCHANGED <<maxSteps, maxIterations>>
    /\ UNCHANGED agentVars
    /\ UNCHANGED overlapVars

\* lines 1801-1818: no step to execute, the gateway answers once more
ContinueLastReturn ==
    /\ opc = "c_last"
    /\ \E decision \in Decisions :
         IF decision.kind # "decision"
         THEN BecomeC(continueFailed(state, obs, "decision"))
         ELSE IF ~decision.shouldContinue
         THEN BecomeC(continueCompleted(state, obs, "decision"))
         ELSE BecomeC(continueCompleted(state, obs, "reached maximum iterations"))
    /\ UNCHANGED <<maxSteps, maxIterations>>
    /\ UNCHANGED agentVars
    /\ UNCHANGED overlapVars

\* lines 1823-1848: agent.callTool returns to (or throws into) continue()'s executeStep
ContinueStepReturn ==
    /\ opc = "c_tool"
    /\ \E run \in stepRuns(state, state.steps[cur], maxRetries) :
         LET o1 == [obs EXCEPT !.run = Did(run)]
         IN  IF run.outcome # "ok"
             THEN BecomeC(continueFailed(stepErrored(state, cur, "tool"),
                                         [o1 EXCEPT !.failures = @ + 1], "tool"))
             ELSE LET st1 == stepCompleted(state, cur, run.result)
                  IN  IF \A i \in DOMAIN st1.steps : st1.steps[i].completed
                      THEN BecomeC(Cfg(st1, "c_done", planRegenerationCount, 0, NoResult,
                                       o1))
                      ELSE LET n == continueLoop(st1, iterations, o1)
                           IN  BecomeAt(n.k, n.iterations)
    /\ UNCHANGED <<maxSteps, maxIterations>>
    /\ UNCHANGED agentVars
    /\ UNCHANGED overlapVars

\* lines 1829-1847: all steps are now completed, the gateway answers
ContinueDoneReturn ==
    /\ opc = "c_done"
    /\ \E decision \in Decisions :
         IF decision.kind # "decision"
         THEN BecomeC(continueFailed(state, obs, "decision"))
         ELSE IF ~decision.shouldContinue
         THEN BecomeC(continueCompleted(state, obs, "decision"))
         ELSE BecomeC(continueCompleted(state, obs, "reached maximum iterations"))
    /\ UNCHANGED <<maxSteps, maxIterations>>
    /\ UNCHANGED agentVars
    /\ UNCHANGED overlapVars

(***************************************************************************)
(* implementations/agent.ts, Agent.callTools                               *)
(***************************************************************************)
\* The tool calls a chain is made of.
ChainCalls == {[tool |-> "add", arguments |-> GoodArgs, context |-> ""],
               [tool |-> "add", arguments |-> BadTypeArgs, context |-> ""],
               [tool |-> "smart_add", arguments |-> EmptyObj, context |-> "ctx"],
               [tool |-> "unknown_tool", arguments |-> GoodArgs, context |-> ""]}

NoChainError == [kind |-> "-", toolName |-> "-"]
NoChain == [calls |-> <<>>, status |-> "none", results |-> <<>>, log |-> <<>>,
            error |-> NoChainError]

\* line 612: callTools calls this.callTool(toolCall), orchestratorCall left to
\* its default
chainOrchestratorCall == FALSE

\* Variant of pushResult that puts the newest result first.
pushResult_front(results, result) == <<result>> \o results

\* line 613: results.push(result)
pushResult(results, result) == Append(results, result)

\* lines 610-624: the for loop up to its next await, or the return after it.
\* log has one entry per callTool made: the position of its call, its outcome.
callToolsLoop(c) ==
    IF Len(c.log) = Len(c.calls) THEN [c EXCEPT !.status = "returned"] ELSE c

\* A caller invokes agent.callTools(toolCalls).
CallTools ==
    /\ chain.status = "none"
    /\ \E toolCalls \in SeqsUpTo(ChainCalls, MaxChainLen) :
         chain' = callToolsLoop([NoChain EXCEPT !.calls = toolCalls,
                                                !.status = "running"])
    /\ UNCHANGED <<maxRetries, agentCall, agentRet, tools, regOp, validation>>
    /\ UNCHANGED orchVars
    /\ UNCHANGED overlapVars

\* The callTool of the current position returns or throws (lines 611-622).
CallToolsNext ==
    /\ chain.status = "running"
    /\ LET pos == Len(chain.log) + 1
       IN  \E run \in callTool(chain.calls[pos], chainOrchestratorCall, maxRetries) :
             LET logged == [chain EXCEPT !.log = Append(@, [pos |-> pos,
                                                            outcome |-> run.outcome,
                                                            result |-> run.result])]
             IN  IF run.outcome = "ok"
                 THEN chain' = callToolsLoop(
                                 [logged EXCEPT !.results = pushResult(@, run.result)])
                 ELSE chain' = [logged EXCEPT !.status = "threw",
                                              !.error = [kind |-> run.outcome,
                                                         toolName |-> run.toolName]]
    /\ UNCHANGED <<maxRetries, agentCall, agentRet, tools, regOp, validation>>
    /\ UNCHANGED orchVars
    /\ UNCHANGED overlapVars

\* The caller is done with what callTools returned or threw.
CallToolsDone ==
    /\ chain.status \in {"returned", "threw"}
    /\ chain' = NoChain
    /\ UNCHANGED <<maxRetries, agentCall, agentRet, tools, regOp, validation>>
    /\ UNCHANGED orchVars
    /\ UNCHANGED overlapVars

(***************************************************************************)
(* implementations/agent.ts, class Agent: the tool registry                *)
(***************************************************************************)
\* The tools a caller may hand to the constructor or to addTool: each name
\* comes with two definitions, told apart by agentic.
RegistryNames == {"add", "smart_add", "extra"}
RegistryTools == [name : RegistryNames, agentic : BOOLEAN, parametersSchema : {AddSchema}]

\* The tool list of the agents of the other specifications.
ConfigTools == <<ToolDefs["add"], ToolDefs["smart_add"]>>

\* this.tools.has(name)
hasTool(registered, name) == \E i \in DOMAIN registered : registered[i].name = name

\* this.tools.get(name): the definition registered under name, as a set (empty
\* for undefined).
getRegistered(registered, name) ==
    {registered[i] : i \in {k \in DOMAIN registered : registered[k].name = name}}

\* lines 74-79: the forEach of the constructor, from the tools set so far.
RECURSIVE ctorTools(_, _)
ctorTools(registered, list) ==
    IF list = <<>> THEN [threw |-> FALSE, tools |-> registered]
    ELSE IF hasTool(registered, Head(list).name)
    THEN [threw |-> TRUE, tools |-> registered]
    ELSE ctorTools(Append(registered, Head(list)), Tail(list))

\* lines 65-79: the constructor's checks of config.tools
newAgentTools(list) ==
    IF Len(list) = 0 THEN [threw |-> TRUE, tools |-> <<>>]
    ELSE ctorTools(<<>>, list)

\* Variant of addTool that sets the tool whether the name is registered or not.
addTool_overwrite(registered, tool) ==
    [threw |-> FALSE,
     tools |-> IF hasTool(registered, tool.name)
               THEN [i \in DOMAIN registered |->
                        IF registered[i].name = tool.name THEN tool ELSE registered[i]]
               ELSE Append(registered, tool)]

\* lines 643-649
addTool(registered, tool) ==
    IF hasTool(registered, tool.name)
    THEN [threw |-> TRUE, tools |-> registered]
    ELSE [threw |-> FALSE, tools |-> Append(registered, tool)]

\* Variant of removeTool that returns true whatever the name.
removeTool_true(registered, toolName) ==
    LET Others(t) == t.name # toolName
    IN  [removed |-> TRUE, tools |-> SelectSeq(registered, Others)]

\* lines 665-671: Map.delete returns whether the key was there
removeTool(registered, toolName) ==
    LET Others(t) == t.name # toolName
    IN  [removed |-> hasTool(registered, toolName),
         tools |-> SelectSeq(registered, Others)]

\* A registry call and its outcome: whether an agent exists, the operation, the
\* name it was about, whether it threw, what it returned, and the registry
\* before the call.
RegOp(agent, op, name, threw, returned, before) ==
    [agent |-> agent, op |-> op, name |-> name, threw |-> threw,
     returned |-> returned, before |-> before]
NoRegOp == RegOp(FALSE, "none", "-", FALSE, FALSE, <<>>)

\* new Agent({tools: list, ...}) while no agent exists
NewAgent ==
    /\ ~regOp.agent
    /\ \E list \in SeqsUpTo(RegistryTools, MaxToolList) :
         LET made == newAgentTools(list)
         IN  /\ tools' = IF made.threw THEN <<>> ELSE made.tools
             /\ regOp' = RegOp(~made.threw, "constructor", "-", made.threw, FALSE, <<>>)
    /\ UNCHANGED <<maxRetries, agentCall, agentRet, chain, validation>>
    /\ UNCHANGED orchVars
    /\ UNCHANGED overlapVars

\* agent.addTool(tool)
AddTool ==
    /\ regOp.agent
    /\ \E tool \in RegistryTools :
         LET added == addTool(tools, tool)
         IN  /\ tools' = added.tools
             /\ regOp' = RegOp(TRUE, "addTool", tool.name, added.threw, FALSE, tools)
    /\ UNCHANGED <<maxRetries, agentCall, agentRet, chain, validation>>
    /\ UNCHANGED orchVars
    /\ UNCHANGED overlapVars

\* agent.removeTool(toolName)
RemoveTool ==
    /\ regOp.agent
    /\ \E toolName \in RegistryNames :
         LET removed == removeTool(tools, toolName)
         IN  /\ tools' = removed.tools
             /\ regOp' = RegOp(TRUE, "removeTool", toolName, FALSE, removed.removed, tools)
    /\ UNCHANGED <<maxRetries, agentCall, agentRet, chain, validation>>
    /\ UNCHANGED orchVars
    /\ UNCHANGED overlapVars

(***************************************************************************)
(* Callers of utils/openApiSpec.ts validateAgainstSchema                   *)
(***************************************************************************)
\* The data records handed to validation: every field absent, null or a value.
DataRecords == [Fields -> Values]

\* The schemas handed to validation, in both formats: any of a, b and toString
\* declared, a as a number or a string, the others as numbers, and in the
\* OpenAPI format any of the declared fields required.
DeclaredFields == {"a", "b", "toString"}
PropertySets ==
    {pr \in UNION {[P -> [type : {"number", "string"}]] : P \in SUBSET DeclaredFields \ {{}}} :
        \A f \in DOMAIN pr : pr[f].type = "string" => f = "a"}
Schemas ==
    {[format |-> "simplified", properties |-> pr, required |-> {}] : pr \in PropertySets}
    \cup UNION {{[format |-> "openapi", properties |-> pr, required |-> rq]
                    : rq \in SUBSET DOMAIN pr} : pr \in PropertySets}

\* No validation asked, and the result of none.
NoValidationResult == [isValid |-> FALSE, data |-> EmptyObj, errors |-> {}]
NoValidation == [pass |-> 0, input |-> EmptyObj, schema |-> AddSchema,
                 first |-> NoValidationResult, again |-> NoValidationResult]

\* A caller validates a record against a schema.
Validate ==
    /\ validation.pass = 0
    /\ \E data \in DataRecords, schema \in Schemas :
         validation' = [pass |-> 1, input |-> data, schema |-> schema,
                        first |-> validateAgainstSchema(data, schema),
                        again |-> NoValidationResult]
    /\ UNCHANGED <<maxRetries, agentCall, agentRet, chain, tools, regOp>>
    /\ UNCHANGED orchVars
    /\ UNCHANGED overlapVars

\* The caller validates the sanitized data of a successful validation again.
Revalidate ==
    /\ validation.pass = 1
    /\ validation.first.isValid
    /\ validation' = [validation EXCEPT
                         !.pass = 2,
                         !.again = validateAgainstSchema(validation.first.data,
                                                         validation.schema)]
    /\ UNCHANGED <<maxRetries, agentCall, agentRet, chain, tools, regOp>>
    /\ UNCHANGED orchVars
    /\ UNCHANGED overlapVars

\* The caller is done with the result.
ValidationDone ==
    /\ validation.pass > 0
    /\ validation' = NoValidation
    /\ UNCHANGED <<maxRetries, agentCall, agentRet, chain, tools, regOp>>
    /\ UNCHANGED orchVars
    /\ UNCHANGED overlapVars

(***************************************************************************)
(* Overlapping calls on one Orchestrator.  execute() is suspended at each   *)
(* await; meanwhile another execute(), or reset(), may run on the same      *)
(* object.  this.state is one field that every call reads anew after each   *)
(* await, while the step handed to executeStep is an object the call keeps   *)
(* hold of: stepIds tells the objects of state.steps apart.  A step object  *)
(* is named <<p, n, i>>: made by call p from step i of its n-th             *)
(* regenerated plan (0 for the first plan).                                 *)
(***************************************************************************)
Callers == {1, 2}

\* The userQuery of each call.
GoalOf(p) == IF p = 1 THEN "q1" ELSE "q2"

NoStep == <<0, 0, 0>>

\* Call p is suspended at an await.
Suspended(p) == calls[p].opc \notin {"new", "idle"}

\* What the gateway answers to the planning requests of overlapping calls: plans
\* of at most OverlapPlanLen steps that depend on no step.
Independent(r) ==
    /\ Len(r.steps) <= OverlapPlanLen
    /\ \A i \in DOMAIN r.steps : r.steps[i].dependsOn = {}
OverlapPlans == {r \in PlanResponses : Independent(r)}
OverlapReplans == {r \in ReplanResponses : Independent(r)}

NothingSent == [tool |-> "-", arguments |-> EmptyObj, context |-> ""]

\* A call that has not been made: opc is "new"; "idle" once it has returned.
\* sent is the ToolCall handed to the awaited callTool; goal and steps are, of
\* the result returned, state.userQuery and the objects of state.steps.
NotCalled ==
    [opc |-> "new", planRegenerationCount |-> 0, step |-> NoStep, number |-> 0,
     sent |-> NothingSent, ret |-> NoResult, goal |-> "-", steps |-> <<>>]
NoCalls == [p \in Callers |-> NotCalled]

\* The index in state.steps of the step object id, 0 when it is not there.
indexOfStep(ids, id) ==
    LET hits == {i \in DOMAIN ids : ids[i] = id}
    IN  IF hits = {} THEN 0 ELSE CHOOSE i \in hits : TRUE

\* What the callTool handed sent may do: return a result or throw.
outcomesOf(sent) ==
    {[outcome |-> run.outcome, result |-> run.result] :
        run \in stepRunsOf[<<sent, maxRetries>>]}

\* Call p goes on as k says, the objects of k.state.steps being ids.
Resume(p, k, ids) ==
    /\ state' = k.state
    /\ stepIds' = ids
    /\ calls' = [calls EXCEPT ![p] =
                  [opc |-> k.opc,
                   planRegenerationCount |-> IF k.opc = "idle" THEN 0
                                             ELSE k.planRegenerationCount,
                   step |-> IF k.opc = "tool" THEN ids[k.cur] ELSE NoStep,
                   number |-> IF k.opc = "tool" THEN k.state.steps[k.cur].stepNumber ELSE 0,
                   sent |-> IF k.opc = "tool"
                            THEN asAgentCall(toolCallWithContext(k.state,
                                                                 k.state.steps[k.cur]))
                            ELSE NothingSent,
                   ret |-> k.ret,
                   goal |-> IF k.opc = "idle" THEN k.state.userQuery ELSE "-",
                   steps |-> IF k.opc = "idle" THEN ids ELSE <<>>]]
    /\ UNCHANGED <<maxSteps, maxIterations, opc, planRegenerationCount, iterations,
                   cur, ret, obs>>
    /\ UNCHANGED agentVars

\* The objects made from a plan of k steps.
newIds(p, n, k) == [i \in 1..k |-> <<p, n, i>>]

\* lines 1550, 1575-1584: the objects of the completed steps, in order
RECURSIVE keptIds(_, _)
keptIds(steps, ids) ==
    IF steps = <<>> THEN <<>>
    ELSE (IF Head(steps).completed THEN <<Head(ids)>> ELSE <<>>)
            \o keptIds(Tail(steps), Tail(ids))

\* lines 1561-1584: the objects of the merged steps
mergeIds(steps, ids, p, n, planResponse) ==
    LET kept == keptIds(steps, ids)
    IN  kept \o newIds(p, n, Len(mergePlan(steps, planResponse)) - Len(kept))

\* lines 1422-1427: executeStep after callTool returned, for the step object at
\* index i of st.steps, or in no state.steps any more (i = 0): the result goes
\* to this.state.context all the same.
stepCompletedBy(st, i, number, result) ==
    IF i # 0
    THEN stepCompleted(st, i, result)
    ELSE [st EXCEPT !.context = {c \in @ : c[1] # number} \cup {<<number, result>>},
                    !.conversationHistory = 1]

\* lines 1431-1437: executeStep after callTool threw, likewise
stepErroredBy(st, i, message) ==
    IF i # 0 THEN stepErrored(st, i, message) ELSE [st EXCEPT !.conversationHistory = 1]

\* execute(GoalOf(p)), up to the await of generatePlan; the second call is made
\* while the first is suspended.
ExecuteBy(p) ==
    /\ calls[p].opc = "new"
    /\ \A q \in Callers : q < p => Suspended(q)
    /\ Resume(p, Cfg([newState(state, GoalOf(p)) EXCEPT !.status = "planning"],
                     "plan", 0, 0, NoResult, NoObs), <<>>)

\* The gateway answers the planning request of call p.
PlanReturnTo(p) ==
    /\ calls[p].opc = "plan"
    /\ \E response \in OverlapPlans :
         IF response.kind # "plan"
         THEN Resume(p, executeFailed(state, 0, NoObs, "planning"), stepIds)
         ELSE LET st1 == [planAccepted(state) EXCEPT
                              !.steps = convertToExecutionSteps(response)]
                  ids == newIds(p, 0, Len(response.steps))
              IN  IF response.isComplete /\ Len(st1.steps) = 0
                  THEN Resume(p, Cfg([st1 EXCEPT !.status = "completed"], "idle", 0, 0,
                                     Result("execute", TRUE, "without tool calls", ""),
                                     NoObs), ids)
                  ELSE Resume(p, executeLoop(st1, 0, NoObs, maxSteps), ids)

\* The callTool of call p's step returns or throws; it throws in the first
\* OverlapFailures rounds of the call only.
StepReturnTo(p) ==
    /\ calls[p].opc = "tool"
    /\ \E run \in outcomesOf(calls[p].sent) :
         LET i == indexOfStep(stepIds, calls[p].step)
             count == calls[p].planRegenerationCount
         IN  /\ run.outcome # "ok" => count < OverlapFailures
             /\ IF run.outcome = "ok"
                THEN Resume(p, executeLoop(stepCompletedBy(state, i, calls[p].number,
                                                           run.result),
                                           count, NoObs, maxSteps), stepIds)
                ELSE Resume(p, stepFailed(stepErroredBy(state, i, "tool"), count, NoObs,
                                          "tool"), stepIds)

\* The gateway answers the regeneration request of call p.
ReplanReturnTo(p) ==
    /\ calls[p].opc = "replan"
    /\ \E response \in OverlapReplans :
         LET count == calls[p].planRegenerationCount
         IN  IF response.kind # "plan"
             THEN Resume(p, executeFailed(state, count, NoObs, "planning"), stepIds)
             ELSE Resume(p, executeLoop([planAccepted(state) EXCEPT
                                             !.steps = mergePlan(state.steps, response)],
                                        count, NoObs, maxSteps),
                         mergeIds(state.steps, stepIds, p, count, response))

\* The gateway answers the final determineNextStep() of call p.
FinalReturnTo(p) ==
    /\ calls[p].opc = "final"
    /\ \E decision \in Decisions :
         LET count == calls[p].planRegenerationCount
         IN  IF decision.kind # "decision"
             THEN Resume(p, executeFailed(state, count, NoObs, "decision"), stepIds)
             ELSE Resume(p, Cfg(state, "idle", count, 0,
                                Result("execute", TRUE, "all steps completed", ""),
                                NoObs), stepIds)

\* reset(), while a call is suspended
ResetMeanwhile ==
    /\ \E p \in Callers : Suspended(p)
    /\ state.userQuery # ""
    /\ state' = newState(state, "")
    /\ stepIds' = <<>>
    /\ UNCHANGED <<maxSteps, maxIterations, opc, planRegenerationCount, iterations,
                   cur, ret, obs, calls>>
    /\ UNCHANGED agentVars

(***************************************************************************)
(* Specifications.                                                         *)
(***************************************************************************)
StepConfigs == {[given |-> TRUE, value |-> n] : n \in 0..MaxStepsCfg}
IterationConfigs == {[given |-> TRUE, value |-> n] : n \in 0..MaxIterationsCfg}

\* new Agent(config), new Orchestrator(config)
Constructed(retryConfigs, stepConfigs, iterationConfigs) ==
    /\ \E c \in retryConfigs : maxRetries = ctorMaxRetries(c)
    /\ \E c \in stepConfigs : maxSteps = ctorMaxSteps(c)
    /\ \E c \in iterationConfigs : maxIterations = ctorMaxIterations(c)
    /\ agentCall = NoCall
    /\ agentRet = NoRun
    /\ chain = NoChain
    /\ tools = ctorTools(<<>>, ConfigTools).tools
    /\ regOp = RegOp(TRUE, "constructor", "-", FALSE, FALSE, <<>>)
    /\ validation = NoValidation
    /\ state = createInitialState("")
    /\ opc = "idle"
    /\ planRegenerationCount = 0
    /\ iterations = 0
    /\ cur = 0
    /\ ret = NoResult
    /\ obs = NoObs
    /\ calls = NoCalls
    /\ stepIds = <<>>

\* The orchestrator over an agent with the default number of retries.
Init == Constructed({[given |-> FALSE, value |-> 0]}, StepConfigs, IterationConfigs)

Next ==
    \/ Execute
    \/ PlanReturn
    \/ StepReturn
    \/ ReplanReturn
    \/ FinalReturn
    \/ Reset
    \/ Continue
    \/ ContinueAllReturn
    \/ ContinueNextReturn
    \/ ContinueLastReturn
    \/ ContinueStepReturn
    \/ ContinueDoneReturn

Spec == Init /\ [][Next]_vars

\* The gateway and the tools answer every request of execute(): each await of
\* execute() resumes.
ExecuteResumes ==
    /\ WF_vars(PlanReturn)
    /\ WF_vars(StepReturn)
    /\ WF_vars(ReplanReturn)
    /\ WF_vars(FinalReturn)

SpecLive == Init /\ [][Next]_vars /\ ExecuteResumes

\* The orchestrator with room for a merged plan: maxSteps above the longest merge
\* of one completed step with a replacement plan, over an agent that does not retry.
InitMerge == Constructed({[given |-> TRUE, value |-> 1]},
                         {[given |-> TRUE, value |-> MergeSteps]},
                         {[given |-> TRUE, value |-> 1]})

SpecMerge == InitMerge /\ [][Next]_vars

\* Two callers of execute() and a caller of reset() on one orchestrator.
NextOverlap ==
    \/ \E p \in Callers : ExecuteBy(p)
    \/ \E p \in Callers : PlanReturnTo(p)
    \/ \E p \in Callers : StepReturnTo(p)
    \/ \E p \in Callers : ReplanReturnTo(p)
    \/ \E p \in Callers : FinalReturnTo(p)
    \/ ResetMeanwhile

InitOverlap == Constructed({[given |-> TRUE, value |-> 1]},
                           {[given |-> TRUE, value |-> OverlapSteps]},
                           {[given |-> TRUE, value |-> 1]})

SpecOverlap == InitOverlap /\ [][NextOverlap]_vars

\* Direct callers of an agent, for every configuration of maxRetries.
InitAgent == Constructed(RetryConfigs, {[given |-> FALSE, value |-> 0]},
                         {[given |-> FALSE, value |-> 0]})

NextAgent ==
    \/ CallToolDirect
    \/ CallToolDone

SpecAgent == InitAgent /\ [][NextAgent]_vars

\* Callers of agent.callTools, for every configuration of maxRetries.
NextTools ==
    \/ CallTools
    \/ CallToolsNext
    \/ CallToolsDone

SpecTools == InitAgent /\ [][NextTools]_vars

\* Callers that construct an agent from a tool list and add and remove tools.
InitRegistry ==
    /\ maxRetries = DefaultMaxRetries
    /\ maxSteps = DefaultMaxSteps
    /\ maxIterations = DefaultMaxIterations
    /\ agentCall = NoCall
    /\ agentRet = NoRun
    /\ chain = NoChain
    /\ tools = <<>>
    /\ regOp = NoRegOp
    /\ validation = NoValidation
    /\ state = createInitialState("")
    /\ opc = "idle"
    /\ planRegenerationCount = 0
    /\ iterations = 0
    /\ cur = 0
    /\ ret = NoResult
    /\ obs = NoObs
    /\ calls = NoCalls
    /\ stepIds = <<>>

NextRegistry ==
    \/ NewAgent
    \/ AddTool
    \/ RemoveTool

SpecRegistry == InitRegistry /\ [][NextRegistry]_vars

\* Callers of the schema validator.
NextValidate ==
    \/ Validate
    \/ Revalidate
    \/ ValidationDone

InitValidate == Constructed({[given |-> FALSE, value |-> 0]},
                            {[given |-> FALSE, value |-> 0]},
                            {[given |-> FALSE, value |-> 0]})

SpecValidate == InitValidate /\ [][NextValidate]_vars

(***************************************************************************)
(* Properties of Agent.callTool, stated on the run a direct caller gets     *)
(* (specification SpecAgent).                                              *)
(***************************************************************************)
EventsOf(run, kind) == {i \in DOMAIN run.trace : run.trace[i].ev = kind}
GatewayEventsOf(run) == EventsOf(run, "extract") \cup EventsOf(run, "regenerate")

\* The failures callTool raises before its retry loop starts.
BeforeLoop == {"ToolNotFound", "MissingInput", "ExtractionFailed", "ValidationFailed"}

\* C2: a callTool whose arguments pass validation and whose tool fails on every
\* invocation invokes execute exactly maxRetries times, maxRetries being at
\* least 1, and throws ToolExecutionFailed with the tool's name and the attempt
\* count maxRetries.
C2_ExhaustsMaxRetries ==
    (/\ agentRet # NoRun
     /\ agentRet.outcome \notin BeforeLoop
     /\ \A i \in EventsOf(agentRet, "execute") : agentRet.trace[i].info # "ok")
    => /\ maxRetries >= 1
       /\ Cardinality(EventsOf(agentRet, "execute")) = maxRetries
       /\ \A n \in 1..maxRetries :
             \E i \in EventsOf(agentRet, "execute") : agentRet.trace[i].att = n
       /\ agentRet.outcome = "ToolExecutionFailed"
       /\ agentRet.toolName = agentCall.tool
       /\ agentRet.retryCount = maxRetries

\* A run that used up three attempts on a tool that failed each time.
C2_Witness ==
    /\ agentRet.outcome = "ToolExecutionFailed"
    /\ maxRetries = 3
    /\ Cardinality(EventsOf(agentRet, "execute")) = 3
    /\ agentRet.retryCount = 3

\* C3: when the effective arguments fail schema validation (explicit arguments
\* that callTool validates, or extracted data that the extraction validates),
\* callTool fails without any execute, any retry (regeneration) and any sleep,
\* after zero attempts; explicit arguments that are invalid always end so.
C3_ValidationFailsBeforeExecute ==
    /\ (agentRet # NoRun /\ agentRet.outcome \in {"ValidationFailed", "ExtractionFailed"})
       => /\ EventsOf(agentRet, "execute") = {}
          /\ EventsOf(agentRet, "sleep") = {}
          /\ EventsOf(agentRet, "regenerate") = {}
          /\ agentRet.retryCount = 0
    /\ (/\ agentRet # NoRun
        /\ agentCall.tool \in DOMAIN ToolDefs
        /\ hasArguments(agentCall)
        /\ ~agentCall.orchestratorCall
        /\ ~validateAgainstSchema(agentCall.arguments,
                                  ToolDefs[agentCall.tool].parametersSchema).isValid)
       => /\ agentRet.outcome = "ValidationFailed"
          /\ agentRet.trace = <<>>

\* Explicit arguments of the wrong type were rejected.
C3_Witness ==
    /\ agentRet.outcome = "ValidationFailed"
    /\ agentCall.arguments = BadTypeArgs
    /\ agentRet.trace = <<>>

\* C8: a callTool with non-empty explicit arguments for a non-agentic tool makes
\* no request to the gateway.
C8_ExplicitArgumentsNoGateway ==
    (/\ agentRet # NoRun
     /\ agentCall.tool \in DOMAIN ToolDefs
     /\ ~ToolDefs[agentCall.tool].agentic
     /\ hasArguments(agentCall))
    => GatewayEventsOf(agentRet) = {}

\* C10: in a callTool whose effective arguments came from extraction, every
\* attempt after the first is preceded by a regeneration request that carries
\* the error message of the previous failed attempt.
C10_RetriesRegenerate ==
    (/\ agentRet # NoRun
     /\ EventsOf(agentRet, "extract") # {})
    => \A i \in EventsOf(agentRet, "execute") :
          agentRet.trace[i].att > 1
          => /\ agentRet.trace[i - 1].ev = "regenerate"
             /\ \E j \in EventsOf(agentRet, "execute") :
                   /\ agentRet.trace[j].att = agentRet.trace[i].att - 1
                   /\ agentRet.trace[i - 1].info = agentRet.trace[j].info

\* C11: a regeneration that fails on a retry attempt does not abort the retry
\* loop: the same attempt invokes execute with the arguments the previous
\* attempt used, and the attempt is one of the maxRetries attempts.
C11_FailedRegenerationKeepsArguments ==
    agentRet # NoRun =>
        \A i \in EventsOf(agentRet, "regenerate") :
            agentRet.trace[i].src = "failed"
            => /\ i + 1 \in EventsOf(agentRet, "execute")
               /\ agentRet.trace[i + 1].att = agentRet.trace[i].att
               /\ agentRet.trace[i].att <= maxRetries
               /\ \E j \in EventsOf(agentRet, "execute") :
                     /\ j < i
                     /\ agentRet.trace[j].att = agentRet.trace[i].att - 1
                     /\ agentRet.trace[i + 1].args = agentRet.trace[j].args
                     /\ agentRet.trace[i + 1].src = agentRet.trace[j].src

\* The regeneration of the second attempt failed and the third attempt ran.
C11_Witness ==
    /\ \E i \in EventsOf(agentRet, "regenerate") :
          agentRet.trace[i].src = "failed" /\ agentRet.trace[i].att = 2
    /\ \E i \in EventsOf(agentRet, "execute") : agentRet.trace[i].att = 3

C13_ArgumentsTakePrecedence ==
    (/\ agentRet # NoRun
     /\ agentCall.tool \in DOMAIN ToolDefs
     /\ hasArguments(agentCall)
     /\ hasContext(agentCall)
     /\ ~agentCall.orchestratorCall)
    => /\ GatewayEventsOf(agentRet) = {}
       /\ \A i \in EventsOf(agentRet, "execute") :
             /\ agentRet.trace[i].src = "arguments"
             /\ agentRet.trace[i].args =
                   validateAgainstSchema(agentCall.arguments,
                       ToolDefs[agentCall.tool].parametersSchema).data

\* An agentic tool called with arguments and a context was executed twice.
C13_Witness ==
    /\ agentCall.tool = "smart_add"
    /\ agentCall.arguments = GoodArgs
    /\ agentCall.context = "ctx"
    /\ ~agentCall.orchestratorCall
    /\ agentRet.outcome = "ok"
    /\ Cardinality(EventsOf(agentRet, "execute")) = 2

(***************************************************************************)
(* Properties of Agent.callTools (specification SpecTools).                *)
(***************************************************************************)
\* C14: callTools makes its callTools one at a time in sequence order; when the
\* call at position k fails, no call after k is started and the failure is
\* thrown to the caller; when all succeed, the i-th result returned is the
\* result of the i-th call.
C14_CallToolsInOrder ==
    chain.status # "none" =>
        /\ Len(chain.log) <= Len(chain.calls)
        /\ \A i \in DOMAIN chain.log :
              /\ chain.log[i].pos = i
              /\ i < Len(chain.log) => chain.log[i].outcome = "ok"
        /\ chain.status = "threw"
           => /\ chain.log # <<>>
              /\ chain.log[Len(chain.log)].outcome # "ok"
              /\ chain.error.kind = chain.log[Len(chain.log)].outcome
              /\ chain.error.toolName = chain.calls[Len(chain.log)].tool
        /\ chain.status = "returned"
           => /\ Len(chain.log) = Len(chain.calls)
              /\ Len(chain.results) = Len(chain.calls)
              /\ \A i \in DOMAIN chain.calls :
                    /\ chain.log[i].outcome = "ok"
                    /\ chain.results[i] = chain.log[i].result

\* The first of two calls failed and callTools threw without starting the second.
C14_Witness ==
    /\ chain.status = "threw"
    /\ Len(chain.calls) = 2
    /\ Len(chain.log) = 1
    /\ chain.error.kind = "ToolExecutionFailed"

(***************************************************************************)
(* Properties of Orchestrator.execute() and continue() (specification      *)
(* Spec).                                                                  *)
(***************************************************************************)
\* agent.callTool is being awaited for the step state.steps[cur].
ToolInvoked == opc \in {"tool", "c_tool"}

\* The pending steps that name a dependency no step of the plan carries.
BlockedByAbsent(steps) ==
    {i \in DOMAIN steps :
        /\ ~steps[i].completed
        /\ \E depNum \in steps[i].dependsOn :
              \A j \in DOMAIN steps : steps[j].stepNumber # depNum}

\* execute() has returned and nothing was called since.
ExecuteReturned == opc = "idle" /\ ret.call = "execute"

\* C1: whenever the tool of a step is invoked, by execute() (after any
\* replanning) or by continue(), every number in the step's dependsOn is the
\* number of a step of steps that is completed.
C1_DependenciesCompleted ==
    ToolInvoked =>
        \A depNum \in state.steps[cur].dependsOn :
            \E i \in DOMAIN state.steps :
                /\ state.steps[i].stepNumber = depNum
                /\ state.steps[i].completed

\* continue() invokes the tool of a step that has dependencies.
C1_Witness ==
    /\ opc = "c_tool"
    /\ state.steps[cur].dependsOn # {}

\* C4: one execute() requests at most maxPlanRegenerations (3) regenerated
\* plans from the gateway, hence at most 4 plans.
C4_ReplansBounded ==
    /\ obs.replans <= maxPlanRegenerations
    /\ obs.plans <= maxPlanRegenerations + 1
    /\ planRegenerationCount <= maxPlanRegenerations

\* The third regenerated plan has been requested.
C4_Witness ==
    /\ opc = "replan"
    /\ obs.replans = 3
    /\ obs.plans = 4

\* C5: when the gateway answers a regeneration request, every step that was
\* completed is still in steps, unchanged (completed, same stepNumber, same
\* result); and when the regenerated plan is taken, every other step of steps
\* is a step of the new plan: not completed, numbered above every earlier step.
C5_ReplanKeepsCompleted ==
    [][opc = "replan" =>
        /\ \A i \in DOMAIN state.steps :
              state.steps[i].completed
              => \E j \in DOMAIN state'.steps : state'.steps[j] = state.steps[i]
        /\ ret'.error # "planning"
           => \A j \in DOMAIN state'.steps :
                 \/ \E i \in DOMAIN state.steps :
                       state.steps[i].completed /\ state'.steps[j] = state.steps[i]
                 \/ /\ ~state'.steps[j].completed
                    /\ state'.steps[j].result = "-"
                    /\ \A i \in DOMAIN state.steps :
                          state.steps[i].stepNumber < state'.steps[j].stepNumber]_vars

\* After one regeneration, the completed step 1 is followed by a step of the
\* regenerated plan, numbered after the two steps of the first plan.
C5_Witness ==
    /\ obs.replans = 1
    /\ Len(state.steps) >= 2
    /\ state.steps[1].completed
    /\ state.steps[1].stepNumber = 1
    /\ state.steps[1].result \in ToolResults
    /\ ~state.steps[2].completed
    /\ state.steps[2].stepNumber = 3

\* C6: a step failure of execute() that comes when 3 regenerated plans have
\* been requested ends the run: execute() returns success false with the
\* failure's message, the status is error, and no plan is requested.
C6_CeilingEndsRun ==
    [][(obs.replans = maxPlanRegenerations /\ obs'.failures = obs.failures + 1) =>
        /\ opc' = "idle"
        /\ state'.status = "error"
        /\ state'.error # ""
        /\ ret'.call = "execute"
        /\ ~ret'.success
        /\ ret'.error = state'.error
        /\ ret'.finalResponse = "Execution failed after plan regenerations"
        /\ obs'.plans = obs.plans
        /\ obs'.replans = obs.replans]_vars

\* execute() returned after the fourth step failure.
C6_Witness ==
    /\ ExecuteReturned
    /\ obs.failures = 4
    /\ obs.replans = 3
    /\ state.status = "error"
    /\ ~ret.success

\* C7, as stated: the tool of a step that depends on a number no step carries is
\* never invoked, and an execute() that returns with such a step pending has
\* had a step failure (a dependency failure, answered by a replanning or by the
\* error return).
C7_AbsentDependencyNeverSkipped ==
    /\ ToolInvoked => cur \notin BlockedByAbsent(state.steps)
    /\ (ExecuteReturned /\ BlockedByAbsent(state.steps) # {}) => obs.failures >= 1

\* C7, amended: the tool of a step that depends on a number no step carries is
\* never invoked; an execute() that returns with such a step pending has had a
\* step failure, or has stopped at the step-count ceiling, where it returns
\* completed without having tried the step.
C7_AbsentDependencyFailsOrCeiling ==
    /\ ToolInvoked => cur \notin BlockedByAbsent(state.steps)
    /\ (ExecuteReturned /\ BlockedByAbsent(state.steps) # {})
       => \/ obs.failures >= 1
          \/ /\ ret.finalResponse = "reached maximum steps limit"
             /\ Len(state.steps) >= maxSteps

\* execute() gave up on a dependency failure, the blocked step still pending.
C7_Witness ==
    /\ ExecuteReturned
    /\ BlockedByAbsent(state.steps) # {}
    /\ ret.error = "dependency"
    /\ ~ret.success

InExecute == opc \in {"plan", "tool", "replan", "final"}

\* The status changes of the state machine as described: idle to planning,
\* planning to executing, executing to completed, error or planning.
DescribedChanges ==
    {<<"idle", "planning">>, <<"planning", "executing">>, <<"executing", "completed">>,
     <<"executing", "error">>, <<"executing", "planning">>}

\* The further changes made while execute() runs: a planning request that
\* fails, a plan that gives nothing to execute (no step, or as many steps as
\* maxSteps), a dependency failure at the regeneration ceiling before any
\* step ran, and a final decision request that fails after the status was set
\* to completed.
FurtherChanges ==
    {<<"planning", "error">>, <<"planning", "completed">>, <<"completed", "error">>}

\* The changes made by a call that starts on a state left by an earlier call:
\* execute() and reset() re-create the state; continue() resumes a run that
\* ended in error.
ChangesByCalls ==
    {<<"completed", "planning">>, <<"error", "planning">>,
     <<"completed", "idle">>, <<"error", "idle">>,
     <<"error", "executing">>, <<"error", "completed">>}

\* C15, as stated, for the steps of a running execute(): the status only
\* changes from idle to planning, planning to executing, executing to
\* completed, executing to error, or executing to planning.
C15_OnlyDescribedChanges ==
    [][(InExecute /\ state'.status # state.status)
        => <<state.status, state'.status>> \in DescribedChanges]_vars

\* C15, amended: while execute() runs, the status changes by one of the
\* described changes or from planning to error, planning to completed or
\* completed to error; a call of execute(), reset() or continue() on a state an
\* earlier call left changes it from completed or error to planning (execute),
\* to idle (reset), or from error to executing or completed (continue).  The
\* status is compared where the calls await or return.
C15_StatusChanges ==
    [][state'.status # state.status
        => /\ <<state.status, state'.status>>
                \in DescribedChanges \cup FurtherChanges \cup ChangesByCalls
           /\ InExecute
              => <<state.status, state'.status>> \in DescribedChanges \cup FurtherChanges]_vars

\* The first planning request failed: the status went from planning to error.
C15_Witness ==
    /\ ExecuteReturned
    /\ state.status = "error"
    /\ ret.error = "planning"
    /\ obs.plans = 1

\* The step numbers of steps, and whether no two steps share one.
NumbersOf(steps) == {steps[i].stepNumber : i \in DOMAIN steps}
DistinctNumbers(steps) ==
    \A i, j \in DOMAIN steps : steps[i].stepNumber = steps[j].stepNumber => i = j

\* The steps of steps2 that steps1 does not hold: the newly created ones.
NewIn(steps1, steps2) ==
    {j \in DOMAIN steps2 : \A i \in DOMAIN steps1 : steps2[j] # steps1[i]
                                 /\ [steps2[j] EXCEPT !.completed = FALSE, !.result = "-",
                                                      !.error = ""]
                                    # [steps1[i] EXCEPT !.completed = FALSE,
                                                        !.result = "-", !.error = ""]}

\* C16: once the initial plan is taken with distinct step numbers, no step of
\* execute() (replanning included) or continue() makes two steps share a
\* stepNumber, and every newly created step gets a number greater than the
\* numbers of the steps there were.
C16_NumbersUniqueAndIncreasing ==
    [][(opc \notin {"idle", "plan"} /\ DistinctNumbers(state.steps))
        => /\ DistinctNumbers(state'.steps)
           /\ \A j \in NewIn(state.steps, state'.steps) :
                 \A n \in NumbersOf(state.steps) : n < state'.steps[j].stepNumber]_vars

\* The incomplete steps of steps whose dependencies are all numbers of completed
\* steps.
Ready(steps) ==
    {i \in DOMAIN steps :
        /\ ~steps[i].completed
        /\ \A depNum \in steps[i].dependsOn :
              \E k \in DOMAIN steps : steps[k].stepNumber = depNum /\ steps[k].completed}

\* C17: whenever execute() invokes the tool of a step while some incomplete step
\* has all its dependencies completed, the step it runs is one of those and no
\* other of them has a lower stepNumber.
C17_LowestReadyStepRuns ==
    (opc = "tool" /\ Ready(state.steps) # {})
        => /\ cur \in Ready(state.steps)
           /\ \A j \in Ready(state.steps) :
                 state.steps[cur].stepNumber <= state.steps[j].stepNumber

\* execute() runs the second step of steps, numbered lower than the first, while
\* both are ready.
C17_Witness ==
    /\ opc = "tool"
    /\ cur = 2
    /\ 1 \in Ready(state.steps)
    /\ state.steps[2].stepNumber < state.steps[1].stepNumber

\* C18: execute() does not return a completed, successful result when the final
\* decision it asked for, with no incomplete step left, said that more work is
\* needed.
C18_FinalDecisionHonored ==
    (ExecuteReturned /\ obs.more) => ~(ret.success /\ state.status = "completed")

\* A step in which continue() is called: it returns a result or comes to wait for
\* the gateway or for a tool.
ContinueCalled ==
    /\ opc = "idle"
    /\ \/ opc' \in {"c_all", "c_next", "c_tool", "c_last", "c_done"}
       \/ ret'.call = "continue" /\ ret' # ret

\* C19: continue() called while status is idle fails with an error, and called
\* while status is completed returns success; either way it returns without
\* waiting for the gateway or for a tool, and the orchestration state and the
\* agent are left as they were.
C19_ContinueAtRest ==
    [][(ContinueCalled /\ state.status \in {"idle", "completed"})
        => /\ opc' = "idle"
           /\ state' = state
           /\ obs' = obs
           /\ agentCall' = agentCall
           /\ ret'.call = "continue"
           /\ ret'.success = (state.status = "completed")]_vars

\* continue() was refused after an execute() and a reset().
C19_Witness ==
    /\ opc = "idle"
    /\ state.status = "idle"
    /\ ret = Result("continue", FALSE, "throws: no execution in progress", "")
    /\ obs.plans = 1

\* C20: when the tool of a step fails in continue() and fewer than
\* maxPlanRegenerations plans were regenerated, continue() does not return a
\* failure: it goes on, asking the gateway for a new plan.
C20_ContinueReplansOnFailure ==
    [][(opc = "c_tool" /\ obs.replans < maxPlanRegenerations)
        => ~(opc' = "idle" /\ ~ret'.success /\ state'.status = "error")]_vars

\* C21: whenever continue() starts the tool of a step of the existing plan while
\* some incomplete step has all its dependencies completed, the step it runs is
\* one of those and no other of them has a lower stepNumber.
C21_ContinuePicksLowestReady ==
    [][(/\ opc = "c_next"
        /\ opc' = "c_tool"
        /\ Len(state'.steps) = Len(state.steps)
        /\ Ready(state.steps) # {})
        => /\ cur' \in Ready(state.steps)
           /\ \A j \in Ready(state.steps) :
                 state.steps[cur'].stepNumber <= state.steps[j].stepNumber]_vars

\* Some step of steps is incomplete.
Pending(steps) == \E i \in DOMAIN steps : ~steps[i].completed

C23_ContextFromDependenciesOnly ==
    \A i \in DOMAIN state.steps :
        LET step == state.steps[i]
            distilled == distillContextForAgenticTool(state, step)
        IN  /\ \A j \in DOMAIN state.steps, r \in ToolResults \cup {"-"}, c \in BOOLEAN :
                  state.steps[j].stepNumber \notin step.dependsOn
                      => distillContextForAgenticTool(
                             [state EXCEPT !.steps[j].result = r,
                                           !.steps[j].completed = c,
                                           !.context = {}], step) = distilled
            /\ (ToolInvoked /\ cur = i /\ toolCallWithContext(state, step).context.present)
                  => /\ toolCallWithContext(state, step).context.data = distilled.data
                     /\ \A depNum \in step.dependsOn :
                           \E k \in DOMAIN state.steps :
                               /\ state.steps[k].stepNumber = depNum
                               /\ state.steps[k].completed
                               /\ <<depNum, state.steps[k].result>> \in distilled.data

\* The agentic tool of a step that depends on a completed step is invoked with
\* a context that holds the result of that step.
C23_Witness ==
    /\ ToolInvoked
    /\ toolCallWithContext(state, state.steps[cur]).context.present
    /\ state.steps[cur].dependsOn # {}
    /\ \E k \in DOMAIN state.steps :
          /\ k # cur
          /\ state.steps[k].completed
          /\ state.steps[k].result \in ToolResults
          /\ <<state.steps[k].stepNumber, state.steps[k].result>>
                \in toolCallWithContext(state, state.steps[cur]).context.data

\* C24: no step is both completed and carrying an error, and a step that has a
\* result is completed and carries no error.
C24_CompletedStepsCarryNoError ==
    \A i \in DOMAIN state.steps :
        /\ ~(state.steps[i].completed /\ state.steps[i].error # "")
        /\ state.steps[i].result # "-"
              => (state.steps[i].completed /\ state.steps[i].error = "")

\* C25: a callTool for a name that is not registered fails with the
\* tool-not-found error naming that tool, whatever its arguments, its context
\* and its orchestratorCall flag, without any gateway request, tool execution
\* or wait.
C25_UnknownToolNotFound ==
    (agentRet # NoRun /\ agentCall.tool \notin DOMAIN ToolDefs)
        => /\ agentRet.outcome = "ToolNotFound"
           /\ agentRet.toolName = agentCall.tool
           /\ agentRet.trace = <<>>
           /\ agentRet.retryCount = 0
           /\ agentRet.result = "-"

\* A call for an unregistered name with empty arguments and no context failed
\* with the tool-not-found error.
C25_Witness ==
    /\ agentRet.outcome = "ToolNotFound"
    /\ agentCall.tool = "unknown_tool"
    /\ agentCall.arguments = EmptyObj
    /\ agentCall.context = ""

\* No two registered tools share a name.
UniqueNames(registered) ==
    \A i, j \in DOMAIN registered : registered[i].name = registered[j].name => i = j

\* C26: no two registered tools ever share a name; an addTool with a name that
\* is registered throws and leaves the registry as it was, so that the name
\* still resolves to the earlier definition; and a constructor handed a list in
\* which a name is repeated throws, and no agent exists.
C26_ToolNamesUnique ==
    /\ UniqueNames(tools)
    /\ (regOp.op = "addTool" /\ hasTool(regOp.before, regOp.name))
          => /\ regOp.threw
             /\ tools = regOp.before
             /\ getRegistered(tools, regOp.name) = getRegistered(regOp.before, regOp.name)
    /\ (regOp.op = "addTool" /\ ~hasTool(regOp.before, regOp.name)) => ~regOp.threw
    /\ (regOp.op = "constructor" /\ regOp.threw) => (~regOp.agent /\ tools = <<>>)
    /\ \A list \in SeqsUpTo(RegistryTools, MaxToolList) :
          (~UniqueNames(list)) => newAgentTools(list).threw

\* An addTool for a registered name was refused, the registry holding two tools.
C26_Witness ==
    /\ regOp.op = "addTool"
    /\ regOp.threw
    /\ hasTool(tools, regOp.name)
    /\ Len(tools) = 2

\* C27: a removeTool of the name that the addTool just before it registered
\* returns true and leaves the registry as it was before that addTool; any
\* removeTool returns true exactly when the name was registered, after which
\* the name is not registered and the other tools are as before, and returns
\* false with the registry unchanged otherwise.
C27_AddThenRemoveRestores ==
    [][(regOp' # regOp /\ regOp'.op = "removeTool")
        => /\ regOp'.returned = hasTool(tools, regOp'.name)
           /\ ~regOp'.threw
           /\ ~regOp'.returned => tools' = tools
           /\ regOp'.returned
                 => /\ ~hasTool(tools', regOp'.name)
                    /\ Len(tools') = Len(tools) - 1
                    /\ \A n \in RegistryNames \ {regOp'.name} :
                          getRegistered(tools', n) = getRegistered(tools, n)
           /\ (regOp.op = "addTool" /\ ~regOp.threw /\ regOp'.name = regOp.name)
                 => (regOp'.returned /\ tools' = regOp.before)]_vars

\* A tool was removed from a registry of three tools.
C27_Witness ==
    /\ regOp.op = "removeTool"
    /\ regOp.returned
    /\ Len(regOp.before) = 3
    /\ Len(tools) = 2

\* The declared type of field f of the normalized schema o is the type of v.
Typed(v, o, f) == TypeOf(v) = o.properties[f].type

\* data has all the required fields of schema present, every field it carries
\* is declared and, unless null, of its declared type.
Conforms(data, schema) ==
    LET o == normalizeToOpenAPISchema(schema)
    IN  /\ \A f \in o.required : data[f] \notin {"undef", "null"}
        /\ \A f \in Keys(data) :
              /\ f \in DOMAIN o.properties
              /\ data[f] # "null" => Typed(data[f], o, f)

\* C28: validating a record that has all required fields present, every field
\* correctly typed and no undeclared field succeeds with sanitized data equal
\* to the record, and validating the sanitized data again succeeds with the
\* same data.
C28_ValidDataPassesUnchanged ==
    (validation.pass >= 1 /\ Conforms(validation.input, validation.schema))
        => /\ validation.first.isValid
           /\ validation.first.data = validation.input
           /\ validation.pass = 2
                 => /\ validation.again.isValid
                    /\ validation.again.data = validation.first.data

\* C29: validating a record that omits a required field fails with an error
\* naming that field, and validating a record that carries an undeclared field
\* fails with an error for that field.
C29_MissingAndUndeclaredFail ==
    validation.pass >= 1
        => LET o == normalizeToOpenAPISchema(validation.schema)
               data == validation.input
               errors == validation.first.errors
           IN  /\ \A f \in o.required :
                     data[f] = "undef"
                        => (~validation.first.isValid /\ \E e \in errors : e[2] = f)
               /\ \A f \in Keys(data) \ DOMAIN o.properties :
                     /\ ~validation.first.isValid
                     /\ <<"Unexpected field", f>> \in errors

\* st holds no step, no history entry, no shared-context entry, no plan and no
\* error.
Empty(st) ==
    /\ st.steps = <<>>
    /\ st.conversationHistory = 0
    /\ st.context = {}
    /\ st.plan = ""
    /\ st.error = ""

\* C30: when execute() starts (it comes to wait for the initial plan) the state
\* holds no step, history entry, shared-context entry or error, whatever the run
\* before it left; a reset() (a step between calls that changes the state and
\* returns nothing) leaves such a state too, with status idle and no query.
C30_NothingCarriesOver ==
    [][/\ (opc = "idle" /\ opc' = "plan")
             => /\ Empty(state')
                /\ state'.status = "planning"
                /\ state'.userQuery \in Queries
                /\ state'.currentStepIndex = 0
       /\ (opc = "idle" /\ opc' = "idle" /\ ret' = ret /\ state' # state)
             => /\ Empty(state')
                /\ state'.status = "idle"
                /\ state'.userQuery = ""
                /\ state'.currentStepIndex = 0]_vars

\* The state is reset after a run that completed a step and ended in an error.
C30_Witness ==
    /\ opc = "idle"
    /\ state.status = "idle"
    /\ Empty(state)
    /\ obs.run.made
    /\ obs.failures >= 1
    /\ ret.call = "execute"
    /\ ~ret.success

\* C31: a callTool that returns a result has made k executes, 1 <= k <=
\* maxRetries, on the attempts 1..k, of which the last and only the last
\* succeeded, and has slept k - 1 times, once after each failed attempt; a
\* callTool whose attempts all failed has slept maxRetries - 1 times, its trace
\* ending with the last execute and not with a sleep.
C31_AttemptsAndDelays ==
    LET t == agentRet.trace
        execs == EventsOf(agentRet, "execute")
        sleeps == EventsOf(agentRet, "sleep")
        k == Cardinality(execs)
    IN  /\ agentRet.outcome = "ok"
           => /\ k \in 1..maxRetries
              /\ \A n \in 1..k : \E i \in execs : t[i].att = n
              /\ \A i \in execs : (t[i].info = "ok") = (t[i].att = k)
              /\ t[Len(t)].ev = "execute"
              /\ agentRet.result \in ToolResults
              /\ Cardinality(sleeps) = k - 1
              /\ \A i \in sleeps : t[i - 1].ev = "execute" /\ t[i - 1].att = t[i].att
              /\ \A n \in 1..(k - 1) : \E i \in sleeps : t[i].att = n
        /\ agentRet.outcome = "ToolExecutionFailed"
           => /\ k = maxRetries
              /\ Cardinality(sleeps) = maxRetries - 1
              /\ \A i \in sleeps : t[i].att < maxRetries
              /\ t[Len(t)].ev = "execute"

\* A callTool returned the result of its third attempt, after two delays.
C31_Witness ==
    /\ agentRet.outcome = "ok"
    /\ Cardinality(EventsOf(agentRet, "execute")) = 3
    /\ Cardinality(EventsOf(agentRet, "sleep")) = 2
    /\ maxRetries = 3

\* C32: an execute() that waits for a replacement plan does not end with the
\* failure of that request: it keeps its steps and goes on, and ends with status
\* error only on a step failure at the regeneration ceiling.
C32_ReplanFailureSwallowed ==
    [][opc = "replan"
        => /\ ~(opc' = "idle" /\ ret'.error = "planning")
           /\ (opc' = "idle" /\ state'.status = "error")
                 => obs'.replans = maxPlanRegenerations]_vars

\* C33: when the gateway and the tools answer every request, an execute() that
\* is running returns; and the tool of a step is invoked only when all its
\* dependencies are completed, so that a step in a dependency cycle, depending
\* on itself or on an absent step is never run.
C33_ExecuteReturns ==
    /\ InExecute ~> ExecuteReturned
    /\ [](opc = "tool" => cur \in Ready(state.steps))

\* execute() returned from a plan whose two steps depend on each other.
C33_Witness ==
    /\ ExecuteReturned
    /\ Len(state.steps) = 2
    /\ \A i \in {1, 2} : /\ ~state.steps[i].completed
                         /\ state.steps[i].dependsOn = {state.steps[3 - i].stepNumber}
    /\ state.steps[1].stepNumber # state.steps[2].stepNumber
    /\ obs.failures >= 1

\* Every step depends only on steps placed before it.
Satisfiable(steps) ==
    \A i \in 1..Len(steps) :
        steps[i].dependsOn \subseteq {steps[j].stepNumber : j \in 1..(i - 1)}

\* C34: when execute() returns from a plan of at most maxSteps steps with
\* satisfiable dependencies, no step having failed, every step of the plan has
\* been executed.
C34_PlanWithinLimitRuns ==
    (/\ ExecuteReturned
     /\ obs.failures = 0
     /\ ret.error = ""
     /\ Len(state.steps) <= maxSteps
     /\ Satisfiable(state.steps))
        => \A i \in 1..Len(state.steps) : state.steps[i].completed

\* The greatest step number of steps, 0 when there is none.
GreatestNumber(steps) ==
    LET numbers == NumbersOf(steps) \cup {0}
    IN  CHOOSE n \in numbers : \A k \in numbers : k <= n

\* C35: the step B whose tool is invoked once a replacement plan is merged does
\* not depend, in that plan, on another step A of that plan, A being new and
\* hence not completed.  The planner numbers the steps of a replacement plan
\* 1, 2, ... in order and the renumbering adds the greatest number there was.
\* Stated for the plans where A itself depends on nothing and for states whose
\* step numbers are distinct.
C35_RenumberingKeepsDependencies ==
    [][(opc = "replan" /\ opc' = "tool" /\ DistinctNumbers(state.steps))
        => LET base == GreatestNumber(state.steps)
           IN  \A j \in DOMAIN state'.steps :
                  (/\ j # cur'
                   /\ state'.steps[j].stepNumber > base
                   /\ state'.steps[j].dependsOn = {}
                   /\ state'.steps[j].stepNumber - base \in state'.steps[cur'].dependsOn)
                      => state'.steps[j].completed]_vars

\* The call did not return: it threw.
CallThrew(r) == r.finalResponse = "throws: no execution in progress"

C37_CompletedIsFinal ==
    [][(opc # "idle" /\ state.status = "completed")
        => state'.status = "completed"]_vars

\* C38: between the calls of execute(), continue() and reset() the state holds
\* an error message exactly when its status is error.
C38_ErrorIffStatusError ==
    opc = "idle" => (state.error # "" <=> state.status = "error")

\* a is b with some elements left out.
RECURSIVE IsSubsequence(_, _)
IsSubsequence(a, b) ==
    IF a = <<>> THEN TRUE
    ELSE IF b = <<>> THEN FALSE
    ELSE IF Head(a) = Head(b) THEN IsSubsequence(Tail(a), Tail(b))
    ELSE IsSubsequence(a, Tail(b))

\* C39: the step whose tool is being invoked is not completed; and, but for
\* execute() and reset() which discard the state, every step of the orchestrator
\* keeps the completed steps as they are, result included, in their order.
C39_CompletedStepsStay ==
    /\ [](ToolInvoked => ~state.steps[cur].completed)
    /\ [][~(Execute \/ Reset)
            => IsSubsequence(completedOf(state.steps), completedOf(state'.steps))]_vars

\* continue() has a step run while an earlier step stays completed.
C39_Witness ==
    /\ opc = "c_tool"
    /\ \E i \in DOMAIN state.steps : i # cur /\ state.steps[i].completed
    /\ obs.continues >= 1

\* C40: a call of execute() that has returned gave a result whose state holds
\* the userQuery of that call and whose steps were all made from the plans of
\* that call; and a call records the result of a step in the context of the
\* state made for its own userQuery only.
C40_CallsIsolated ==
    /\ [](\A p \in Callers :
            calls[p].opc = "idle"
                => /\ calls[p].goal = GoalOf(p)
                   /\ \A i \in DOMAIN calls[p].steps : calls[p].steps[i][1] = p)
    /\ [][\A p \in Callers :
            (calls[p].opc = "tool" /\ calls'[p] # calls[p] /\ state'.context # state.context)
                => state.userQuery = GoalOf(p)]_vars

====
